---- MODULE Spec2Model ----
(***************************************************************************)
(* Model of the vm-inspector pipeline: src/inspect.py and src/tools.       *)
(*                                                                         *)
(* The top-level script is one sequential program.  It is cut into steps   *)
(* at the calls it makes to the mount helpers, the partition classifier,   *)
(* the OS probes, the package parsers and the release helpers.  The        *)
(* outcome of every external facility (a subprocess, the kernel's mount    *)
(* table, the content of the guest's files) is an input drawn with \E.     *)
(***************************************************************************)
EXTENDS Integers, Sequences, FiniteSets, TLC

\* ---------------------------------------------------------------- bounds
MaxParts == 2        \* descriptors in the partition table of the image
MaxVols == 1         \* logical volumes exposed by the volume-group mount
MaxVolParts == 1     \* descriptors in the partition table of one volume

\* ------------------------------------------------------- program constants
SUPPORTED_FS_TYPES == {"ext2", "ext3", "ext4", "xfs", "btrfs", "vfat", "ntfs"}

\* Characters are one-letter strings, a Python str is a tuple of them.
sAlpine == <<"A", "l", "p", "i", "n", "e">>
sDebian == <<"D", "e", "b", "i", "a", "n">>
sUbuntu == <<"U", "b", "u", "n", "t", "u">>
sLinuxMint == <<"L", "i", "n", "u", "x", " ", "M", "i", "n", "t">>
sLMDE == <<"L", "M", "D", "E">>
sArch == <<"A", "r", "c", "h">>
sManjaro == <<"M", "a", "n", "j", "a", "r", "o">>
sGentoo == <<"G", "e", "n", "t", "o", "o">>
sCentOS == <<"C", "e", "n", "t", "O", "S">>
sAlmaLinux == <<"A", "l", "m", "a", "L", "i", "n", "u", "x">>
sScientific == <<"S", "c", "i", "e", "n", "t", "i", "f", "i", "c">>
sRocky == <<"R", "o", "c", "k", "y">>
sOracle == <<"O", "r", "a", "c", "l", "e">>
sOpenSUSE == <<"o", "p", "e", "n", "S", "U", "S", "E">>
sFedora == <<"F", "e", "d", "o", "r", "a">>
sMicrosoft == <<"M", "i", "c", "r", "o", "s", "o", "f", "t">>
sWindows == <<"W", "i", "n", "d", "o", "w", "s">>

StartsWith(s, p) == Len(s) >= Len(p) /\ SubSeq(s, 1, Len(p)) = p

\* re.compile(r"^(A|B|...).*$").match(name): name starts with an alternative
\* and has no newline after it.
ReMatch(alts, s) ==
    /\ \E p \in alts : StartsWith(s, p)
    /\ \A k \in 1..Len(s) : s[k] # "\n"

APK == {sAlpine}
DPKG == {sDebian, sUbuntu, sLinuxMint, sLMDE}
PACMAN == {sArch, sManjaro}
PORTAGE == {sGentoo}
RPM == {sCentOS, sAlmaLinux, sScientific, sRocky, sOracle, sOpenSUSE, sFedora}
WIN == {sMicrosoft, sWindows}

\* ------------------------------------------------------------ input sets
\* A raw partition descriptor of pyparted: part.fileSystem.type ("none" when
\* part.fileSystem is None) and part.getFlag(PARTITION_LVM).  part.number and
\* part.geometry.start are the descriptor's position in the table.
Descriptors ==
    [fs : {"ext4", "ntfs", "none"}, lvm : {FALSE}] \cup
    [fs : {"ext4", "none"}, lvm : {TRUE}]

SeqsUpTo(S, n) == UNION {[1..k -> S] : k \in 0..n}

\* What parted finds at a path: an unreadable device or a partition table.
TablesUpTo(n) ==
    {[readable |-> FALSE, parts |-> <<>>]} \cup
    [readable : {TRUE}, parts : SeqsUpTo(Descriptors, n)]

EmptyInfo == [populated |-> FALSE, name |-> <<>>, version |-> <<>>,
              package_manager |-> ""]

Info(n, v, pm) == [populated |-> TRUE, name |-> n, version |-> v,
                   package_manager |-> pm]

vA == <<"1">>
vB == <<"2">>

\* Values get_linux_os_info can return (the last one: NAME='""' passes the
\* emptiness test before the quotes are stripped).
LinuxInfos ==
    {EmptyInfo,
     Info(sUbuntu, vA, "dpkg"),
     Info(<<"K", "a", "l", "i">>, vA, "dpkg"),
     Info(<<>>, vA, "dpkg")}

\* Values get_windows_os_info can return.
WindowsInfos == {EmptyInfo, Info(sWindows, vB, "win")}

pkgA == [name |-> "bash", version |-> "5.0"]
pkgB == [name |-> "musl", version |-> "1.2"]

\* Values a package parser can return.
AppLists == {<<>>, <<pkgA>>, <<pkgB>>}

\* ------------------------------------------------------------- variables
VARIABLES
    pc,         \* position of the script
    exitCode,   \* -1 while running, else the process's exit status
    fatal,      \* which message was printed to stderr ("" if none)
    nextDir,    \* tempfile.mkdtemp: the next fresh directory
    tmp,        \* temporary directories that exist
    mounts,     \* directories that are mount points
    image_mp, parts, lvm, lvm_mp, fs_mps, os_info, apps,  \* inspect.py globals
    nvols,      \* number of entries subfiles(lvm_mp) yields
    i,          \* position of the running for loop
    vol_part,   \* inspect.py: classification of the current volume
    mp,         \* mount(): the directory of the mount in progress
    proc,       \* the Popen'ed mount process: none, running, visible, exited
    out,        \* the record printed to stdout (NoOut before)
    acquired,   \* history: mounts returned to the script, in order
    calls,      \* history: unmount/rmdir calls made by the script
    attempts,   \* history: mount calls made by the script
    probes,     \* history: OS probe calls
    parsed,     \* history: package parser calls
    call,       \* a probe or parser called on its own: what it is given
    result      \* ... and what it returned (NoResult before the call)

vars == <<pc, exitCode, fatal, nextDir, tmp, mounts, image_mp,
          parts, lvm, lvm_mp, fs_mps, os_info, apps, nvols, i, vol_part, mp,
          proc, out, acquired, calls, attempts, probes, parsed, call,
          result>>

NoOut == [printed |-> FALSE, os_name |-> <<>>, os_version |-> <<>>,
          apps |-> <<>>]

\* ------------------------------------------------------ tools/__init__.py
\* unmount(path): fusermount -u succeeds (u) only on a mount point.
unmount(ms, path, u) == IF u /\ path \in ms THEN ms \ {path} ELSE ms

unmountOk(ms, path, u) == u /\ path \in ms

\* rmdir(path): os.rmdir removes the (empty) directory unless it is still a
\* mount point (EBUSY).
rmdirOk(ms, path) == path \notin ms

rmdir(ds, ms, path) == IF rmdirOk(ms, path) THEN ds \ {path} ELSE ds

\* ------------------------------------------------------ tools/pyparted.py
\* Fault: the LVM flag is tested before the filesystem type.
list_partitions_LvmFirst(t) ==
    LET n == Len(t.parts)
        ret[k \in 0..n] ==
            IF k = 0 THEN <<>>
            ELSE LET d == t.parts[k] IN
                 IF d.lvm
                 THEN Append(ret[k - 1],
                             [nr |-> k, type |-> "lvm", offset |-> k * 512])
                 ELSE IF d.fs # "none" /\ d.fs \in SUPPORTED_FS_TYPES
                 THEN Append(ret[k - 1],
                             [nr |-> k, type |-> d.fs, offset |-> k * 512])
                 ELSE ret[k - 1]
    IN IF ~t.readable THEN <<>> ELSE ret[n]

\* Lines 38-66: a device or partition table that cannot be read gives the
\* empty list; otherwise one record per partition with a supported
\* filesystem or, failing that, the LVM flag.
list_partitions(t) ==
    LET n == Len(t.parts)
        ret[k \in 0..n] ==
            IF k = 0 THEN <<>>
            ELSE LET d == t.parts[k] IN
                 IF d.fs # "none" /\ d.fs \in SUPPORTED_FS_TYPES
                 THEN Append(ret[k - 1],
                             [nr |-> k, type |-> d.fs, offset |-> k * 512])
                 ELSE IF d.lvm
                 THEN Append(ret[k - 1],
                             [nr |-> k, type |-> "lvm", offset |-> k * 512])
                 ELSE ret[k - 1]
    IN IF ~t.readable THEN <<>> ELSE ret[n]

\* -------------------------------------------------------------- initial
NoCall == [fn |-> "none"]

NoResult == [returned |-> FALSE]

\* The script before its first statement.
InitScript ==
    /\ pc = "start"
    /\ exitCode = -1
    /\ fatal = ""
    /\ nextDir = 1
    /\ tmp = {}
    /\ mounts = {}
    /\ image_mp = 0
    /\ parts = <<>>
    /\ lvm = <<>>
    /\ lvm_mp = 0
    /\ fs_mps = <<>>
    /\ os_info = EmptyInfo
    /\ apps = <<>>
    /\ nvols = 0
    /\ i = 0
    /\ vol_part = <<>>
    /\ mp = 0
    /\ proc = "none"
    /\ out = NoOut
    /\ acquired = <<>>
    /\ calls = <<>>
    /\ attempts = <<>>
    /\ probes = <<>>
    /\ parsed = <<>>

Init ==
    /\ InitScript
    /\ call = NoCall
    /\ result = NoResult

\* ---------------------------------------------------------------- helpers
Attempt(kind, dev, vol, type, nr, offset, m, res) ==
    [kind |-> kind, dev |-> dev, vol |-> vol, type |-> type, nr |-> nr,
     offset |-> offset, mp |-> m, res |-> res]

Returned(res) == [attempts EXCEPT ![Len(attempts)].res = res]

\* An uncaught exception: the interpreter prints the traceback and exits
\* with status 1; nothing after the raising statement runs.
Crash ==
    /\ pc' = "crashed"
    /\ exitCode' = 1

\* unmount(path); rmdir(path) as the script calls them, results ignored.
Release(path, u) ==
    LET ms == unmount(mounts, path, u) IN
    /\ mounts' = ms
    /\ tmp' = rmdir(tmp, ms, path)
    /\ calls' = calls \o
           <<[op |-> "unmount", path |-> path,
              ok |-> unmountOk(mounts, path, u)],
             [op |-> "rmdir", path |-> path, ok |-> rmdirOk(ms, path)]>>

\* -------------------------------------------------- the mount processes
\* The Popen'ed process makes the mount point visible.
ProcVisible ==
    /\ proc = "running"
    /\ proc' = "visible"
    /\ mounts' = mounts \cup {mp}
    /\ UNCHANGED <<pc, exitCode, fatal, nextDir, tmp, image_mp,
                   parts, lvm, lvm_mp, fs_mps, os_info, apps, nvols, i,
                   vol_part, mp, out, acquired, calls, attempts,
                   probes, parsed>>
    /\ UNCHANGED <<call, result>>

\* The Popen'ed process exits; a mount it had made goes away or stays stale.
ProcExit ==
    /\ proc \in {"running", "visible"}
    /\ proc' = "exited"
    /\ \E stale \in BOOLEAN :
           mounts' = IF stale THEN mounts ELSE mounts \ {mp}
    /\ UNCHANGED <<pc, exitCode, fatal, nextDir, tmp, image_mp,
                   parts, lvm, lvm_mp, fs_mps, os_info, apps, nvols, i,
                   vol_part, mp, out, acquired, calls, attempts,
                   probes, parsed>>
    /\ UNCHANGED <<call, result>>

\* ------------------------------------------------------- tools/nbdfuse.py
\* Line 50 (args.backend is nbdfuse): mount(path) up to its poll loop:
\* mkdtemp, Popen.
NbdfuseStart ==
    /\ pc = "start"
    /\ mp' = nextDir
    /\ nextDir' = nextDir + 1
    /\ \E popen \in BOOLEAN :
           IF popen
           THEN /\ tmp' = tmp \cup {nextDir}
                /\ proc' = "running"
                    /\ pc' = "image_poll"
                /\ attempts' = Append(attempts,
                       Attempt("image", "image", 0, "", 0, 0, nextDir,
                               "pending"))
                /\ UNCHANGED image_mp
           ELSE /\ tmp' = rmdir(tmp \cup {nextDir}, mounts, nextDir)
                /\ image_mp' = 0
                /\ pc' = "image_check"
                /\ attempts' = Append(attempts,
                       Attempt("image", "image", 0, "", 0, 0, nextDir, "fail"))
                /\ UNCHANGED proc
    /\ UNCHANGED <<exitCode, fatal, mounts, parts, lvm, lvm_mp,
                   fs_mps, os_info, apps, nvols, i, vol_part, out, acquired,
                   calls, probes, parsed>>
    /\ UNCHANGED <<call, result>>

\* Lines 47-59 of mount(path): the loop condition and the visibility test of
\* one iteration of the poll loop, and what follows the loop.
NbdfusePoll ==
    /\ pc = "image_poll"
    /\ IF proc = "exited"
       THEN /\ tmp' = rmdir(tmp, mounts, mp)
            /\ image_mp' = 0
            /\ attempts' = Returned("fail")
            /\ proc' = "none"
            /\ pc' = "image_check"
            /\ UNCHANGED acquired
       ELSE IF proc = "visible"
       THEN /\ image_mp' = mp
            /\ acquired' = Append(acquired, [mp |-> mp, kind |-> "image"])
            /\ attempts' = Returned("ok")
            /\ proc' = "none"
            /\ pc' = "image_check"
            /\ UNCHANGED tmp
       ELSE /\ pc' = "image_sleep"
            /\ UNCHANGED <<image_mp, acquired, attempts, proc, tmp>>
    /\ UNCHANGED <<exitCode, fatal, nextDir, mounts, parts, lvm,
                   lvm_mp, fs_mps, os_info, apps, nvols, i, vol_part, mp, out,
                   calls, probes, parsed>>
    /\ UNCHANGED <<call, result>>

\* Line 50 of mount(path): sleep(1), then the loop condition is evaluated
\* again.
NbdfuseSleep ==
    /\ pc = "image_sleep"
    /\ pc' = "image_poll"
    /\ UNCHANGED <<exitCode, fatal, nextDir, tmp, mounts, image_mp, parts, lvm,
                   lvm_mp, fs_mps, os_info, apps, nvols, i, vol_part, mp, proc,
                   out, acquired, calls, attempts, probes, parsed>>
    /\ UNCHANGED <<call, result>>

\* ------------------------------------------------------- tools/libvmdk.py
\* Line 48 (args.backend is libvmdk): mount(path): the descriptor is read
\* (it may raise); a renamed image gets
\* a symlink in a directory of its own, which is removed again before the
\* function returns; vmdkmount runs to completion.
LibvmdkMount ==
    /\ pc = "start"
    /\ \E desc \in {"raise", "same", "renamed"}, mounted \in BOOLEAN :
           IF desc = "raise"
           THEN /\ Crash
                /\ UNCHANGED <<nextDir, tmp, mounts, image_mp, mp, acquired,
                               attempts>>
           ELSE /\ mp' = nextDir
                /\ nextDir' = nextDir + 1
                /\ IF mounted
                   THEN /\ tmp' = tmp \cup {nextDir}
                        /\ mounts' = mounts \cup {nextDir}
                        /\ image_mp' = nextDir
                        /\ acquired' = Append(acquired,
                               [mp |-> nextDir, kind |-> "image"])
                        /\ attempts' = Append(attempts,
                               Attempt("image", "image", 0, "", 0, 0, nextDir,
                                       "ok"))
                   ELSE /\ tmp' = rmdir(tmp \cup {nextDir}, mounts, nextDir)
                        /\ image_mp' = 0
                        /\ attempts' = Append(attempts,
                               Attempt("image", "image", 0, "", 0, 0, nextDir,
                                       "fail"))
                        /\ UNCHANGED <<mounts, acquired>>
                /\ pc' = "image_check"
                /\ UNCHANGED exitCode
    /\ UNCHANGED <<fatal, parts, lvm, lvm_mp, fs_mps, os_info,
                   apps, nvols, i, vol_part, proc, out, calls, probes,
                   parsed>>
    /\ UNCHANGED <<call, result>>

\* ------------------------------------------------------ tools/lklfuse.py
\* mount(path, fs_type, part_nr) up to its poll loop: mkdtemp, Popen.  When
\* Popen raises, the directory is removed and None is returned to the loop.
LklfuseStart(dev, vol, type, nr) ==
    /\ mp' = nextDir
    /\ nextDir' = nextDir + 1
    /\ \E popen \in BOOLEAN :
           IF popen
           THEN /\ tmp' = tmp \cup {nextDir}
                /\ proc' = "running"
                /\ pc' = "fs_poll"
                /\ attempts' = Append(attempts,
                       Attempt("fs", dev, vol, type, nr, 0, nextDir, "pending"))
                /\ UNCHANGED i
           ELSE /\ tmp' = rmdir(tmp \cup {nextDir}, mounts, nextDir)
                /\ i' = i + 1
                /\ attempts' = Append(attempts,
                       Attempt("fs", dev, vol, type, nr, 0, nextDir, "fail"))
                /\ UNCHANGED <<proc, pc>>

\* The loop of inspect.py that called lklfuse.mount.
LoopPc == IF lvm = <<>> THEN "direct" ELSE "vols"

\* part["type"] resp. vol_part[0]["type"] of the running iteration.
LoopType == IF lvm = <<>> THEN parts[i].type ELSE vol_part[1].type

\* Fault: a failed filesystem mount ends the mounting loop.
LklfusePoll_FailStops ==
    /\ pc = "fs_poll"
    /\ IF proc = "exited"
       THEN /\ tmp' = rmdir(tmp, mounts, mp)
            /\ attempts' = Returned("fail")
            /\ proc' = "none"
            /\ pc' = "identify"
            /\ i' = 1
            /\ vol_part' = <<>>
            /\ UNCHANGED <<acquired, fs_mps>>
       ELSE IF proc = "visible"
       THEN /\ fs_mps' = Append(fs_mps, [mp |-> mp, type |-> LoopType])
            /\ acquired' = Append(acquired, [mp |-> mp, kind |-> "fs"])
            /\ attempts' = Returned("ok")
            /\ proc' = "none"
            /\ pc' = LoopPc
            /\ i' = i + 1
            /\ vol_part' = <<>>
            /\ UNCHANGED tmp
       ELSE /\ pc' = "fs_sleep"
            /\ UNCHANGED <<fs_mps, acquired, attempts, proc, i, tmp,
                            vol_part>>
    /\ UNCHANGED <<exitCode, fatal, nextDir, mounts, image_mp,
                   parts, lvm, lvm_mp, os_info, apps, nvols, mp, out,
                   calls, probes, parsed>>
    /\ UNCHANGED <<call, result>>

\* Lines 63-75 of mount(): the loop condition and the visibility test of one
\* iteration of the poll loop, and what follows the loop; a returned mount
\* point is appended to fs_mps by the calling loop.
LklfusePoll ==
    /\ pc = "fs_poll"
    /\ IF proc = "exited"
       THEN /\ tmp' = rmdir(tmp, mounts, mp)
            /\ attempts' = Returned("fail")
            /\ proc' = "none"
            /\ pc' = LoopPc
            /\ i' = i + 1
            /\ vol_part' = <<>>
            /\ UNCHANGED <<acquired, fs_mps>>
       ELSE IF proc = "visible"
       THEN /\ fs_mps' = Append(fs_mps, [mp |-> mp, type |-> LoopType])
            /\ acquired' = Append(acquired, [mp |-> mp, kind |-> "fs"])
            /\ attempts' = Returned("ok")
            /\ proc' = "none"
            /\ pc' = LoopPc
            /\ i' = i + 1
            /\ vol_part' = <<>>
            /\ UNCHANGED tmp
       ELSE /\ pc' = "fs_sleep"
            /\ UNCHANGED <<fs_mps, acquired, attempts, proc, i, tmp,
                            vol_part>>
    /\ UNCHANGED <<exitCode, fatal, nextDir, mounts, image_mp,
                   parts, lvm, lvm_mp, os_info, apps, nvols, mp, out,
                   calls, probes, parsed>>
    /\ UNCHANGED <<call, result>>

\* Line 66 of mount(): sleep(1), then the loop condition is evaluated again.
LklfuseSleep ==
    /\ pc = "fs_sleep"
    /\ pc' = "fs_poll"
    /\ UNCHANGED <<exitCode, fatal, nextDir, tmp, mounts, image_mp, parts, lvm,
                   lvm_mp, fs_mps, os_info, apps, nvols, i, vol_part, mp, proc,
                   out, acquired, calls, attempts, probes, parsed>>
    /\ UNCHANGED <<call, result>>

\* ------------------------------------------------------------ inspect.py
\* Lines 52-59: the image could not be mounted: message, exit status 1.
CheckImage ==
    /\ pc = "image_check"
    /\ IF image_mp = 0
       THEN /\ fatal' = "MountFailure"
            /\ exitCode' = 1
            /\ pc' = "exited"
       ELSE /\ pc' = "classify"
            /\ UNCHANGED <<fatal, exitCode>>
    /\ UNCHANGED <<nextDir, tmp, mounts, image_mp, parts, lvm,
                   lvm_mp, fs_mps, os_info, apps, nvols, i, vol_part, mp, proc,
                   out, acquired, calls, attempts, probes, parsed>>
    /\ UNCHANGED <<call, result>>

\* Fault: the no-partitions exit forgets to release the image mount.
Classify_NoRelease ==
    /\ pc = "classify"
    /\ \E table \in TablesUpTo(MaxParts) : parts' = list_partitions(table)
    /\ IF parts' = <<>>
       THEN /\ fatal' = "NoPartitions"
            /\ exitCode' = 1
            /\ pc' = "exited"
            /\ UNCHANGED <<fs_mps, lvm, lvm_mp, i, mounts, tmp, calls>>
       ELSE /\ fs_mps' = <<>>
            /\ lvm' = SelectSeq(parts', LAMBDA part : part.type = "lvm")
            /\ lvm_mp' = 0
            /\ pc' = IF lvm' = <<>> THEN "direct" ELSE "lvm_mount"
            /\ i' = 1
            /\ UNCHANGED <<fatal, exitCode, mounts, tmp, calls>>
    /\ UNCHANGED <<nextDir, image_mp, os_info, apps, nvols,
                   vol_part, mp, proc, out, acquired, attempts, probes,
                   parsed>>
    /\ UNCHANGED <<call, result>>

\* Lines 61-70: classify the raw device; no partitions: release the image
\* mount, message, exit status 1.
Classify ==
    /\ pc = "classify"
    /\ \E table \in TablesUpTo(MaxParts) : parts' = list_partitions(table)
    /\ IF parts' = <<>>
       THEN /\ \E u \in BOOLEAN : Release(image_mp, u)
            /\ fatal' = "NoPartitions"
            /\ exitCode' = 1
            /\ pc' = "exited"
            /\ UNCHANGED <<fs_mps, lvm, lvm_mp, i>>
       ELSE /\ fs_mps' = <<>>
            /\ lvm' = SelectSeq(parts', LAMBDA part : part.type = "lvm")
            /\ lvm_mp' = 0
            /\ pc' = IF lvm' = <<>> THEN "direct" ELSE "lvm_mount"
            /\ i' = 1
            /\ UNCHANGED <<fatal, exitCode, mounts, tmp, calls>>
    /\ UNCHANGED <<nextDir, image_mp, os_info, apps, nvols,
                   vol_part, mp, proc, out, acquired, attempts, probes,
                   parsed>>
    /\ UNCHANGED <<call, result>>

\* Lines 72-75: the next partition of the raw device is mounted directly.
MountDirect ==
    /\ pc = "direct"
    /\ IF i > Len(parts)
       THEN /\ pc' = "identify"
            /\ i' = 1
            /\ UNCHANGED <<mp, nextDir, tmp, proc, attempts>>
       ELSE LklfuseStart("raw", 0, parts[i].type, parts[i].nr)
    /\ UNCHANGED <<exitCode, fatal, mounts, image_mp, parts,
                   lvm, lvm_mp, fs_mps, os_info, apps, nvols, vol_part, out,
                   acquired, calls, probes, parsed>>
    /\ UNCHANGED <<call, result>>

\* Fault: the offset of the last lvm partition is passed instead of the first.
LvmOffset_Last == lvm[Len(lvm)].offset

\* Line 76: lvm[0]["offset"], the offset passed to libvslvm.mount.
LvmOffset == lvm[1].offset

\* Line 76, tools/libvslvm.py mount(path, offset): mkdtemp, vslvmmount runs
\* to completion; on success subfiles(lvm_mp) yields the volumes.
MountLvm ==
    /\ pc = "lvm_mount"
    /\ mp' = nextDir
    /\ nextDir' = nextDir + 1
    /\ i' = 1
    /\ \E mounted \in BOOLEAN, n \in 0..MaxVols :
           IF mounted
           THEN /\ tmp' = tmp \cup {nextDir}
                /\ mounts' = mounts \cup {nextDir}
                /\ lvm_mp' = nextDir
                /\ nvols' = n
                /\ acquired' = Append(acquired,
                       [mp |-> nextDir, kind |-> "lvm"])
                /\ attempts' = Append(attempts,
                       Attempt("lvm", "raw", 0, "", 0, LvmOffset, nextDir,
                               "ok"))
                /\ pc' = "vols"
           ELSE /\ tmp' = rmdir(tmp \cup {nextDir}, mounts, nextDir)
                /\ lvm_mp' = 0
                /\ attempts' = Append(attempts,
                       Attempt("lvm", "raw", 0, "", 0, LvmOffset, nextDir,
                               "fail"))
                /\ pc' = "identify"
                /\ UNCHANGED <<mounts, nvols, acquired>>
    /\ UNCHANGED <<exitCode, fatal, image_mp, parts, lvm, fs_mps,
                   os_info, apps, vol_part, proc, out, calls, probes,
                   parsed>>
    /\ UNCHANGED <<call, result>>

\* Lines 77-83: the next volume is classified and its first partition
\* mounted.  vol_part is not read again before the next iteration assigns
\* it, so the model forgets it as soon as the iteration is over.
MountVolume ==
    /\ pc = "vols"
    /\ IF i > nvols
       THEN /\ pc' = "identify"
            /\ i' = 1
            /\ UNCHANGED <<mp, nextDir, tmp, proc, attempts, vol_part>>
       ELSE \E t \in TablesUpTo(MaxVolParts) :
                LET classified == list_partitions(t) IN
                IF classified = <<>>
                THEN /\ i' = i + 1
                     /\ UNCHANGED <<mp, nextDir, tmp, proc, attempts, pc,
                                    vol_part>>
                ELSE /\ LklfuseStart("vol", i, classified[1].type, 0)
                     /\ vol_part' = IF pc' = "fs_poll" THEN classified
                                    ELSE <<>>
    /\ UNCHANGED <<exitCode, fatal, mounts, image_mp, parts, lvm, lvm_mp,
                   fs_mps, os_info, apps, nvols, out, acquired, calls, probes,
                   parsed>>
    /\ UNCHANGED <<call, result>>

\* Fault: the filesystem type is ignored and every filesystem gets the Linux
\* probe.
ProbeFor_AlwaysLinux(v) == "linux"

\* Lines 87-90: the probe chosen for a filesystem of type v.
ProbeFor(v) == IF v = "ntfs" THEN "windows" ELSE "linux"

\* What the chosen probe can return on some filesystem.
ProbeResults(probe) == IF probe = "windows" THEN WindowsInfos ELSE LinuxInfos

\* Fault: a filesystem is released as soon as it has been probed, before
\* the parsers run.
Identify_ReleasesProbed ==
    /\ pc = "identify"
    /\ IF i > Len(fs_mps)
       THEN /\ pc' = "parse"
            /\ i' = 1
            /\ UNCHANGED <<os_info, probes, exitCode, tmp, mounts, calls>>
       ELSE LET probe == ProbeFor(fs_mps[i].type) IN
            \E raises \in BOOLEAN, res \in ProbeResults(probe) :
                IF raises
                THEN /\ Crash
                     /\ UNCHANGED <<tmp, mounts, calls>>
                     /\ probes' = Append(probes,
                            [fs |-> i, probe |-> probe, raised |-> TRUE,
                             res |-> EmptyInfo])
                     /\ UNCHANGED <<os_info, i>>
                ELSE /\ os_info' = res
                     /\ \E u \in BOOLEAN : Release(fs_mps[i].mp, u)
                     /\ probes' = Append(probes,
                            [fs |-> i, probe |-> probe, raised |-> FALSE,
                             res |-> res])
                     /\ IF res.populated
                        THEN pc' = "parse" /\ i' = 1
                        ELSE pc' = pc /\ i' = i + 1
                     /\ UNCHANGED exitCode
    /\ UNCHANGED <<fatal, nextDir, image_mp, parts,
                   lvm, lvm_mp, fs_mps, apps, nvols, vol_part, mp, proc,
                   out, acquired, attempts, parsed>>
    /\ UNCHANGED <<call, result>>

\* Lines 85-92: the next filesystem is probed.  Both probes read guest files
\* outside any try (inspect_os.py:55-111, 168-172), so a probe may raise.
Identify ==
    /\ pc = "identify"
    /\ IF i > Len(fs_mps)
       THEN /\ pc' = "parse"
            /\ i' = 1
            /\ UNCHANGED <<os_info, probes, exitCode>>
       ELSE LET probe == ProbeFor(fs_mps[i].type) IN
            \E raises \in BOOLEAN, res \in ProbeResults(probe) :
                IF raises
                THEN /\ Crash
                     /\ probes' = Append(probes,
                            [fs |-> i, probe |-> probe, raised |-> TRUE,
                             res |-> EmptyInfo])
                     /\ UNCHANGED <<os_info, i>>
                ELSE /\ os_info' = res
                     /\ probes' = Append(probes,
                            [fs |-> i, probe |-> probe, raised |-> FALSE,
                             res |-> res])
                     /\ IF res.populated
                        THEN pc' = "parse" /\ i' = 1
                        ELSE pc' = pc /\ i' = i + 1
                     /\ UNCHANGED exitCode
    /\ UNCHANGED <<fatal, nextDir, tmp, mounts, image_mp, parts,
                   lvm, lvm_mp, fs_mps, apps, nvols, vol_part, mp, proc,
                   out, acquired, calls, attempts, parsed>>
    /\ UNCHANGED <<call, result>>

\* Lines 97-108: the parser the OS name selects ("none": no branch taken).
ParserFor(os_name) ==
    IF ReMatch(APK, os_name) THEN "apk"
    ELSE IF ReMatch(DPKG, os_name) THEN "dpkg"
    ELSE IF ReMatch(PACMAN, os_name) THEN "pacman"
    ELSE IF ReMatch(PORTAGE, os_name) THEN "portage"
    ELSE IF ReMatch(RPM, os_name) THEN "rpm"
    ELSE IF ReMatch(WIN, os_name) THEN "win"
    ELSE "none"

\* Fault: the loop does not stop at the first non-empty list, the last
\* filesystem's list wins.
Parse_NoBreak ==
    /\ pc = "parse"
    /\ IF os_info.name = <<>> \/ i > Len(fs_mps)
       THEN /\ pc' = "teardown_fs"
            /\ i' = 1
            /\ UNCHANGED <<apps, parsed, exitCode>>
       ELSE LET parser == ParserFor(os_info.name) IN
            IF parser = "none"
            THEN /\ i' = i + 1
                 /\ UNCHANGED <<apps, parsed, exitCode, pc>>
            ELSE \E raises \in BOOLEAN, res \in AppLists :
                     IF raises
                     THEN /\ Crash
                          /\ parsed' = Append(parsed,
                                 [fs |-> i, parser |-> parser, raised |-> TRUE,
                                  res |-> <<>>])
                          /\ UNCHANGED <<apps, i>>
                     ELSE /\ apps' = res
                          /\ parsed' = Append(parsed,
                                 [fs |-> i, parser |-> parser, raised |-> FALSE,
                                  res |-> res])
                          /\ pc' = pc
                          /\ i' = i + 1
                          /\ UNCHANGED exitCode
    /\ UNCHANGED <<fatal, nextDir, tmp, mounts, image_mp, parts,
                   lvm, lvm_mp, fs_mps, os_info, nvols, vol_part, mp, proc,
                   out, acquired, calls, attempts, probes>>
    /\ UNCHANGED <<call, result>>

\* Lines 94-110: the selected parser runs on the next filesystem.  The
\* parsers read guest files outside any try (inspect_apps.py:73, 137, 207,
\* 269, 328, 413), so a parser may raise.
Parse ==
    /\ pc = "parse"
    /\ IF os_info.name = <<>> \/ i > Len(fs_mps)
       THEN /\ pc' = "teardown_fs"
            /\ i' = 1
            /\ UNCHANGED <<apps, parsed, exitCode>>
       ELSE LET parser == ParserFor(os_info.name) IN
            IF parser = "none"
            THEN /\ i' = i + 1
                 /\ UNCHANGED <<apps, parsed, exitCode, pc>>
            ELSE \E raises \in BOOLEAN, res \in AppLists :
                     IF raises
                     THEN /\ Crash
                          /\ parsed' = Append(parsed,
                                 [fs |-> i, parser |-> parser, raised |-> TRUE,
                                  res |-> <<>>])
                          /\ UNCHANGED <<apps, i>>
                     ELSE /\ apps' = res
                          /\ parsed' = Append(parsed,
                                 [fs |-> i, parser |-> parser, raised |-> FALSE,
                                  res |-> res])
                          /\ IF res # <<>>
                             THEN pc' = "teardown_fs" /\ i' = 1
                             ELSE pc' = pc /\ i' = i + 1
                          /\ UNCHANGED exitCode
    /\ UNCHANGED <<fatal, nextDir, tmp, mounts, image_mp, parts,
                   lvm, lvm_mp, fs_mps, os_info, nvols, vol_part, mp, proc,
                   out, acquired, calls, attempts, probes>>
    /\ UNCHANGED <<call, result>>

\* Fault: the list is walked from its last entry to its first.
TeardownTarget_Reversed == fs_mps[Len(fs_mps) - i + 1].mp

\* Line 112: k of the running iteration of "for k, _ in fs_mps".
TeardownTarget == fs_mps[i].mp

\* Fault: a failed unmount ends the teardown loop (no rmdir, no further
\* release of a filesystem mount).
TeardownFs_StopOnFailure ==
    /\ pc = "teardown_fs"
    /\ IF i > Len(fs_mps)
       THEN /\ pc' = "teardown_lvm"
            /\ UNCHANGED <<i, mounts, tmp, calls>>
       ELSE \E u \in BOOLEAN :
                IF unmountOk(mounts, TeardownTarget, u)
                THEN /\ Release(TeardownTarget, u)
                     /\ i' = i + 1
                     /\ UNCHANGED pc
                ELSE /\ calls' = Append(calls,
                            [op |-> "unmount", path |-> TeardownTarget,
                             ok |-> FALSE])
                     /\ pc' = "teardown_lvm"
                     /\ UNCHANGED <<i, mounts, tmp>>
    /\ UNCHANGED <<exitCode, fatal, nextDir, image_mp, parts,
                   lvm, lvm_mp, fs_mps, os_info, apps, nvols, vol_part, mp,
                   proc, out, acquired, attempts, probes, parsed>>
    /\ UNCHANGED <<call, result>>

\* Fault: the loop over fs_mps ends one entry early, the last filesystem
\* mount is still held when the layers below it are released.
TeardownFs_SkipsLast ==
    /\ pc = "teardown_fs"
    /\ IF i >= Len(fs_mps)
       THEN /\ pc' = "teardown_lvm"
            /\ UNCHANGED <<i, mounts, tmp, calls>>
       ELSE /\ \E u \in BOOLEAN : Release(TeardownTarget, u)
            /\ i' = i + 1
            /\ UNCHANGED pc
    /\ UNCHANGED <<exitCode, fatal, nextDir, image_mp, parts,
                   lvm, lvm_mp, fs_mps, os_info, apps, nvols, vol_part, mp,
                   proc, out, acquired, attempts, probes, parsed>>
    /\ UNCHANGED <<call, result>>

\* Lines 112-114: the next filesystem mount of fs_mps is released.
TeardownFs ==
    /\ pc = "teardown_fs"
    /\ IF i > Len(fs_mps)
       THEN /\ pc' = "teardown_lvm"
            /\ UNCHANGED <<i, mounts, tmp, calls>>
       ELSE /\ \E u \in BOOLEAN : Release(TeardownTarget, u)
            /\ i' = i + 1
            /\ UNCHANGED pc
    /\ UNCHANGED <<exitCode, fatal, nextDir, image_mp, parts,
                   lvm, lvm_mp, fs_mps, os_info, apps, nvols, vol_part, mp,
                   proc, out, acquired, attempts, probes, parsed>>
    /\ UNCHANGED <<call, result>>

\* Fault: the volume-group mount is forgotten by teardown.
TeardownLvm_Skip ==
    /\ pc = "teardown_lvm"
    /\ pc' = "teardown_image"
    /\ UNCHANGED <<mounts, tmp, calls>>
    /\ UNCHANGED <<exitCode, fatal, nextDir, image_mp, parts,
                   lvm, lvm_mp, fs_mps, os_info, apps, nvols, i, vol_part, mp,
                   proc, out, acquired, attempts, probes, parsed>>
    /\ UNCHANGED <<call, result>>

\* Lines 116-118: the volume-group mount, if there is one, is released.
TeardownLvm ==
    /\ pc = "teardown_lvm"
    /\ IF lvm_mp # 0
       THEN \E u \in BOOLEAN : Release(lvm_mp, u)
       ELSE UNCHANGED <<mounts, tmp, calls>>
    /\ pc' = "teardown_image"
    /\ UNCHANGED <<exitCode, fatal, nextDir, image_mp, parts,
                   lvm, lvm_mp, fs_mps, os_info, apps, nvols, i, vol_part, mp,
                   proc, out, acquired, attempts, probes, parsed>>
    /\ UNCHANGED <<call, result>>

\* Lines 120-121: the image mount is released.
TeardownImage ==
    /\ pc = "teardown_image"
    /\ \E u \in BOOLEAN : Release(image_mp, u)
    /\ pc' = "print"
    /\ UNCHANGED <<exitCode, fatal, nextDir, image_mp, parts,
                   lvm, lvm_mp, fs_mps, os_info, apps, nvols, i, vol_part, mp,
                   proc, out, acquired, attempts, probes, parsed>>
    /\ UNCHANGED <<call, result>>

\* Lines 123-127: the record is printed and the script ends with status 0.
PrintResult ==
    /\ pc = "print"
    /\ out' = [printed |-> TRUE, os_name |-> os_info.name,
               os_version |-> os_info.name, apps |-> apps]
    /\ exitCode' = 0
    /\ pc' = "done"
    /\ UNCHANGED <<fatal, nextDir, tmp, mounts, image_mp, parts,
                   lvm, lvm_mp, fs_mps, os_info, apps, nvols, i, vol_part, mp,
                   proc, acquired, calls, attempts, probes, parsed>>
    /\ UNCHANGED <<call, result>>

\* ---------------------------------------------------------- specification
\* The steps of the script (a single thread that always runs on).
Program ==
    \/ NbdfuseStart
    \/ NbdfusePoll
    \/ NbdfuseSleep
    \/ LibvmdkMount
    \/ CheckImage
    \/ Classify
    \/ MountDirect
    \/ MountLvm
    \/ MountVolume
    \/ LklfusePoll
    \/ LklfuseSleep
    \/ Identify
    \/ Parse
    \/ TeardownFs
    \/ TeardownLvm
    \/ TeardownImage
    \/ PrintResult

\* The steps of the external mount processes (no obligation to ever act).
Environment ==
    \/ ProcVisible
    \/ ProcExit

Next == Program \/ Environment

Spec == Init /\ [][Next]_vars

\* The script is never suspended for ever: a step it can take, it takes.
FairSpec == Spec /\ WF_vars(Program)

\* ------------------------------------------------------ shared vocabulary
\* The ways a run ends that the script itself decides: the record was
\* printed (done) or sys.exit(1) was called (exited).
Ended == pc \in {"done", "exited"}

\* Any end of the process, an uncaught exception included.
Terminated == pc \in {"done", "exited", "crashed"}

\* Positions of the calls of one kind on one path.
CallsOn(op, path) ==
    {j \in 1..Len(calls) : calls[j].op = op /\ calls[j].path = path}

AcquiredPaths == {acquired[k].mp : k \in 1..Len(acquired)}

FsAttempts == SelectSeq(attempts, LAMBDA a : a.kind = "fs")

LvmAttempts == SelectSeq(attempts, LAMBDA a : a.kind = "lvm")

\* The top-level classification ran and returned no partition.
ZeroPartitions ==
    /\ image_mp # 0
    /\ pc \notin {"image_check", "classify"}
    /\ parts = <<>>

\* The mounting phase (lines 72-83) is over.
MountingOver ==
    pc \in {"identify", "parse", "teardown_fs", "teardown_lvm",
            "teardown_image", "print", "done"}
    \/ (pc = "crashed" /\ probes # <<>>)

\* ------------------------------------------------------------------- C1
\* C1: in every run that ends by normal completion, image-mount failure or
\* zero partitions, each mount that was acquired has had unmount and then
\* rmdir called on it exactly once, and at no time is unmount or rmdir
\* called on a path that was not acquired or called twice on one path.
C1_ReleasedExactlyOnce ==
    /\ \A j \in 1..Len(calls) : calls[j].path \in AcquiredPaths
    /\ \A m \in AcquiredPaths :
           /\ Cardinality(CallsOn("unmount", m)) <= 1
           /\ Cardinality(CallsOn("rmdir", m)) <= 1
    /\ Cardinality(AcquiredPaths) = Len(acquired)
    /\ Ended =>
           \A m \in AcquiredPaths :
               \E a \in CallsOn("unmount", m), b \in CallsOn("rmdir", m) :
                   /\ CallsOn("unmount", m) = {a}
                   /\ CallsOn("rmdir", m) = {b}
                   /\ a < b

\* A completed run that had acquired an image, a volume-group and a
\* filesystem mount.
C1_Witness ==
    /\ pc = "done"
    /\ lvm_mp # 0
    /\ fs_mps # <<>>
    /\ Len(calls) = 6

\* ------------------------------------------------------------------- C2
\* C2 (as claimed): when a run has ended, fatal or not, no temporary
\* directory created during the run exists any more.
C2_AllTempDirsRemoved == Terminated => tmp = {}

C4_ExitCode ==
    Terminated =>
        /\ (exitCode = 1) <=> (image_mp = 0 \/ parts = <<>>)
        /\ (exitCode # 1) => (exitCode = 0 /\ out.printed)

\* ------------------------------------------------------------------- C5
\* The paths of the unmount calls, in call order.
UnmountOrder ==
    LET u == SelectSeq(calls, LAMBDA c : c.op = "unmount")
    IN  [j \in 1..Len(u) |-> u[j].path]

\* The position of a path in a sequence of paths (0: absent).
PosIn(seq, path) ==
    IF \E j \in 1..Len(seq) : seq[j] = path
    THEN CHOOSE j \in 1..Len(seq) : seq[j] = path
    ELSE 0

AcquisitionOrder == [k \in 1..Len(acquired) |-> acquired[k].mp]

\* C5 (as claimed): of any two released resources, the one acquired later
\* was released first.
C5_StrictReverseOrder ==
    \A a, b \in AcquiredPaths :
        (/\ PosIn(UnmountOrder, a) # 0
         /\ PosIn(UnmountOrder, b) # 0
         /\ PosIn(AcquisitionOrder, a) < PosIn(AcquisitionOrder, b))
        => PosIn(UnmountOrder, b) < PosIn(UnmountOrder, a)

\* C5 (amended): teardown releases the layers in reverse acquisition order
\* (every filesystem mount, then the volume-group mount, then the image
\* mount), but the filesystem mounts among themselves in the order in which
\* they were mounted: the unmount calls follow the list fs_mps from its
\* first entry to its last, then lvm_mp, then image_mp.
C5_TeardownOrder ==
    LET fs == [k \in 1..Len(fs_mps) |-> fs_mps[k].mp]
        plan == fs \o (IF lvm_mp # 0 THEN <<lvm_mp>> ELSE <<>>) \o <<image_mp>>
    IN  /\ (image_mp # 0 /\ parts # <<>>) =>
               /\ Len(UnmountOrder) <= Len(plan)
               /\ UnmountOrder = SubSeq(plan, 1, Len(UnmountOrder))
               /\ pc \in {"print", "done"} => UnmountOrder = plan
        /\ \A a, b \in {acquired[k].mp : k \in {j \in 1..Len(acquired) :
                                                  acquired[j].kind = "fs"}} :
               (/\ PosIn(UnmountOrder, a) # 0
                /\ PosIn(UnmountOrder, b) # 0
                /\ PosIn(AcquisitionOrder, a) < PosIn(AcquisitionOrder, b))
               => PosIn(UnmountOrder, a) < PosIn(UnmountOrder, b)

\* A completed run that released two filesystem mounts.
C5_Witness ==
    /\ pc = "done"
    /\ Len(fs_mps) >= 2
    /\ Len(UnmountOrder) >= 3

\* ------------------------------------------------------------------- C6
\* Both calls of a release were made on the path.
ReleaseAttempted(m) == CallsOn("unmount", m) # {} /\ CallsOn("rmdir", m) # {}

\* C6: when teardown is over and some unmount or rmdir call returned
\* failure, unmount and rmdir have nevertheless been called on every acquired
\* mount; a failed unmount is always followed by the rmdir of the same path.
C6_FailureDoesNotStopTeardown ==
    /\ \A j \in 1..Len(calls) :
           (calls[j].op = "unmount" /\ ~calls[j].ok) =>
               /\ j < Len(calls)
               /\ calls[j + 1].op = "rmdir"
               /\ calls[j + 1].path = calls[j].path
    /\ (/\ pc \in {"print", "done"}
        /\ \E j \in 1..Len(calls) : ~calls[j].ok)
       => \A m \in AcquiredPaths : ReleaseAttempted(m)

\* A completed run whose first release failed and that went on to release
\* two more mounts.
C6_Witness ==
    /\ pc = "done"
    /\ Len(calls) >= 6
    /\ ~calls[1].ok
    /\ ~calls[2].ok
    /\ \A m \in AcquiredPaths : ReleaseAttempted(m)

\* ------------------------------------------------------------------- C7
\* C7: without an lvm partition the filesystem mounts attempted are, in
\* order, one per classified partition (its type, its number, on the raw
\* device) whatever the earlier attempts returned, and fs_mps is the list of
\* the attempts that succeeded with the partition's type, in that order; when
\* the volume-group mount has failed, fs_mps is empty, nothing is probed or
\* parsed, and the run goes on to teardown and prints its record.
C7_MountFailuresSkipped ==
    LET ok == SelectSeq(FsAttempts, LAMBDA a : a.res = "ok")
        lvmFailed == LvmAttempts # <<>> /\ LvmAttempts[1].res = "fail"
    IN  /\ (\A k \in 1..Len(parts) : parts[k].type # "lvm") =>
               /\ Len(FsAttempts) <= Len(parts)
               /\ \A k \in 1..Len(FsAttempts) :
                      /\ FsAttempts[k].dev = "raw"
                      /\ FsAttempts[k].type = parts[k].type
                      /\ FsAttempts[k].nr = parts[k].nr
               /\ (MountingOver /\ parts # <<>>) => Len(FsAttempts) = Len(parts)
               /\ fs_mps = [k \in 1..Len(ok) |->
                               [mp |-> ok[k].mp, type |-> ok[k].type]]
        /\ lvmFailed =>
               /\ fs_mps = <<>>
               /\ FsAttempts = <<>>
               /\ probes = <<>> /\ parsed = <<>>
               /\ pc \in {"identify", "parse", "teardown_fs", "teardown_lvm",
                          "teardown_image", "print", "done"}
               /\ pc = "done" => (out.printed /\ exitCode = 0)

\* A completed run whose first partition failed to mount and whose second
\* partition was mounted.
C7_Witness ==
    /\ pc = "done"
    /\ Len(FsAttempts) = 2
    /\ FsAttempts[1].dev = "raw"
    /\ FsAttempts[1].res = "fail"
    /\ FsAttempts[2].res = "ok"
    /\ Len(fs_mps) = 1

\* ------------------------------------------------------------------- C8
HasLvm == \E k \in 1..Len(parts) : parts[k].type = "lvm"

FirstLvm ==
    CHOOSE k \in 1..Len(parts) :
        parts[k].type = "lvm" /\ \A j \in 1..(k - 1) : parts[j].type # "lvm"

\* C8: at most one volume-group mount is ever attempted; with an lvm
\* partition, it is attempted (once the mounting phase is over, exactly once)
\* at the byte offset of the first lvm partition in classification order and
\* no filesystem mount is made on the raw device; without an lvm partition
\* no volume-group mount is attempted.
C8_FirstLvmOnly ==
    /\ Len(LvmAttempts) <= 1
    /\ HasLvm =>
           /\ \A k \in 1..Len(LvmAttempts) :
                  /\ LvmAttempts[k].offset = parts[FirstLvm].offset
                  /\ LvmAttempts[k].dev = "raw"
           /\ \A k \in 1..Len(FsAttempts) : FsAttempts[k].dev # "raw"
           /\ MountingOver => Len(LvmAttempts) = 1
    /\ ~HasLvm => LvmAttempts = <<>>

\* A completed run on a filesystem partition followed by an lvm partition,
\* whose volume group was mounted.
C8_Witness ==
    /\ pc = "done"
    /\ Len(parts) = 2
    /\ parts[1].type # "lvm"
    /\ parts[2].type = "lvm"
    /\ Len(LvmAttempts) = 1
    /\ LvmAttempts[1].res = "ok"

\* ------------------------------------------------------------------- C9
Polling == pc \in {"image_poll", "image_sleep", "fs_poll", "fs_sleep"}

\* C9 (as claimed): a mount attempt that polls for the mount to become
\* visible eventually returns, whatever the mount process does.
C9_PollingReturns == Polling ~> ~Polling

\* ------------------------------------------------------------------ C10
\* C10: the probes run on fs_mps[1], fs_mps[2], ... in this order, the
\* Windows probe on a filesystem of type ntfs and the Linux probe on any
\* other; every probe but the last returned an empty result; once
\* identification is over, os_info is the populated result of the last probe
\* (and no later filesystem was probed), or it is empty and every filesystem
\* was probed.
C10_FirstPopulatedProbeWins ==
    /\ Len(probes) <= Len(fs_mps)
    /\ \A k \in 1..Len(probes) :
           /\ probes[k].fs = k
           /\ probes[k].probe =
                  IF fs_mps[k].type = "ntfs" THEN "windows" ELSE "linux"
           /\ k < Len(probes) =>
                  (~probes[k].raised /\ ~probes[k].res.populated)
    /\ pc = "identify" => Len(probes) = i - 1
    /\ pc \in {"parse", "teardown_fs", "teardown_lvm", "teardown_image",
               "print", "done"} =>
           /\ os_info = IF probes = <<>> THEN EmptyInfo
                        ELSE probes[Len(probes)].res
           /\ ~os_info.populated => Len(probes) = Len(fs_mps)

\* A completed run with two filesystems whose first probe was populated, so
\* that the second filesystem was never probed.
C10_Witness ==
    /\ pc = "done"
    /\ Len(fs_mps) = 2
    /\ Len(probes) = 1
    /\ os_info.populated

\* ======================================================== Python built-ins
\* str is a tuple of characters, dict a function, list a sequence.
WHITESPACE == {" ", "\t", "\n"}

QUOTES == {"'", "\""}

MinOf(S) == CHOOSE x \in S : \A y \in S : x <= y

MaxOf(S) == CHOOSE x \in S : \A y \in S : x >= y

\* s.strip(chars)
strip(s, chars) ==
    LET keep == {k \in 1..Len(s) : s[k] \notin chars}
    IN  IF keep = {} THEN <<>> ELSE SubSeq(s, MinOf(keep), MaxOf(keep))

\* c in s, for a character c
Contains(s, c) == \E k \in 1..Len(s) : s[k] = c

\* s.split(c, 1), for a character c that s contains
split1(s, c) ==
    LET k == MinOf({j \in 1..Len(s) : s[j] = c})
    IN  <<SubSeq(s, 1, k - 1), SubSeq(s, k + 1, Len(s))>>

\* s.split(): the maximal runs of characters that are not whitespace
split(s) ==
    LET word(k) == s[k] \notin WHITESPACE
        starts == {k \in 1..Len(s) : word(k) /\ (k = 1 \/ ~word(k - 1))}
        nth(n) == CHOOSE k \in starts :
                      Cardinality({j \in starts : j <= k}) = n
        stop(k) == MaxOf({e \in k..Len(s) : \A j \in k..e : word(j)})
    IN  [n \in 1..Cardinality(starts) |-> SubSeq(s, nth(n), stop(nth(n)))]

\* f.read() of a file given as its lines
read(lines) ==
    LET cat[k \in 0..Len(lines)] ==
            IF k = 0 THEN <<>> ELSE cat[k - 1] \o lines[k]
    IN  cat[Len(lines)]

\* d[k] = v
put(d, k, v) == [x \in DOMAIN d \cup {k} |-> IF x = k THEN v ELSE d[x]]

\* d.get(k, default)
get(d, k, default) == IF k \in DOMAIN d THEN d[k] ELSE default

\* ==================================================== tools/inspect_os.py
kNAME == <<"N", "A", "M", "E">>

kVERSION == <<"V", "E", "R", "S", "I", "O", "N">>

kVERSION_ID == <<"V", "E", "R", "S", "I", "O", "N", "_", "I", "D">>

kBUILD_ID == <<"B", "U", "I", "L", "D", "_", "I", "D">>

kID_LIKE == <<"I", "D", "_", "L", "I", "K", "E">>

kID == <<"I", "D">>

sRelease == <<"r", "e", "l", "e", "a", "s", "e">>

tAlpine == <<"a", "l", "p", "i", "n", "e">>

tDebian == <<"d", "e", "b", "i", "a", "n">>

tUbuntu == <<"u", "b", "u", "n", "t", "u">>

tArch == <<"a", "r", "c", "h">>

tCentos == <<"c", "e", "n", "t", "o", "s">>

tFedora == <<"f", "e", "d", "o", "r", "a">>

tRhel == <<"r", "h", "e", "l">>

tOpensuse == <<"o", "p", "e", "n", "s", "u", "s", "e">>

tSuse == <<"s", "u", "s", "e">>

tOl == <<"o", "l">>

\* Lines 29-42: the release files of the first directory, in os.walk order,
\* whose etc holds a regular file matching *release and no dangling entry
\* matching it.  A directory is [dangling, files]; files maps a basename to
\* the lines of the file.
release_files(etcs) ==
    LET found == {k \in 1..Len(etcs) :
                      ~etcs[k].dangling /\ DOMAIN etcs[k].files # {}}
    IN  IF found = {} THEN <<>> ELSE etcs[MinOf(found)].files

\* name = version = package_manager = "" (line 50)
NoMatch == [name |-> <<>>, version |-> <<>>, package_manager |-> ""]

\* re.match(r"^(.*)\srelease\s(.*)$", text), or with gentoo
\* re.match(r"^(Gentoo).*release\s(.*)$", text): "." matches no newline, "$"
\* matches at the end and before a final newline, the groups are greedy.
\* k is where "release" starts, e where the last group ends.
release_match(text, gentoo) ==
    LET n == Len(text)
        oneline(a, b) == \A j \in a..b : text[j] # "\n"
        fits(k, e) ==
            /\ k + 7 <= n
            /\ SubSeq(text, k, k + 6) = sRelease
            /\ text[k + 7] \in WHITESPACE
            /\ IF gentoo
               THEN StartsWith(text, sGentoo) /\ k > Len(sGentoo)
                    /\ oneline(1, k - 1)
               ELSE k >= 2 /\ text[k - 1] \in WHITESPACE /\ oneline(1, k - 2)
            /\ e >= k + 7
            /\ oneline(k + 8, e)
            /\ (e = n \/ (e = n - 1 /\ text[n] = "\n"))
        ks == {k \in 1..n : \E e \in k..n : fits(k, e)}
    IN  IF ks = {} THEN NoMatch
        ELSE LET k == MaxOf(ks)
                 e == MaxOf({x \in k..n : fits(k, x)})
             IN  [name |-> IF gentoo THEN sGentoo ELSE SubSeq(text, 1, k - 2),
                  version |-> SubSeq(text, k + 8, e),
                  package_manager |-> IF gentoo THEN "portage" ELSE "rpm"]

\* Lines 87-98: the package manager of one token of ID_LIKE ("": the loop
\* goes on to the next token).
package_manager_of(token) ==
    IF token = tAlpine THEN "apk"
    ELSE IF token \in {tDebian, tUbuntu} THEN "dpkg"
    ELSE IF token = tArch THEN "pacman"
    ELSE IF token \in {tCentos, tFedora, tRhel} THEN "rpm"
    ELSE IF token \in {tOpensuse, tSuse} THEN "rpm"
    ELSE IF token = tOl THEN "rpm"
    ELSE ""

\* Lines 72-77: the dictionary built from the lines of os-release.
os_release_kv(lines) ==
    LET kv[j \in 0..Len(lines)] ==
            IF j = 0 THEN <<>>
            ELSE LET line == lines[j] IN
                 IF line = <<>> \/ StartsWith(line, <<"#">>)
                    \/ ~Contains(line, "=")
                 THEN kv[j - 1]
                 ELSE put(kv[j - 1], split1(line, "=")[1],
                          split1(line, "=")[2])
    IN  kv[Len(lines)]

\* Lines 79-83: version of the os-release branch.
os_release_version(kv) ==
    LET version == get(kv, kVERSION, get(kv, kVERSION_ID, <<>>))
    IN  IF version = <<>> THEN get(kv, kBUILD_ID, <<>>) ELSE version

\* Fault: the loop over the tokens of ID_LIKE has no break, the last
\* recognised token decides.
os_release_LastToken(lines) ==
    LET kv == os_release_kv(lines)
        id_like == split(strip(strip(get(kv, kID_LIKE, get(kv, kID, <<>>)),
                                     WHITESPACE), QUOTES))
        known == {k \in 1..Len(id_like) : package_manager_of(id_like[k]) # ""}
    IN  [name |-> get(kv, kNAME, <<>>),
         version |-> os_release_version(kv),
         package_manager |->
             IF known = {} THEN ""
             ELSE package_manager_of(id_like[MaxOf(known)])]

\* Lines 71-101: the os-release branch.
os_release(lines) ==
    LET kv == os_release_kv(lines)
        id_like == split(strip(strip(get(kv, kID_LIKE, get(kv, kID, <<>>)),
                                     WHITESPACE), QUOTES))
        known == {k \in 1..Len(id_like) : package_manager_of(id_like[k]) # ""}
    IN  [name |-> get(kv, kNAME, <<>>),
         version |-> os_release_version(kv),
         package_manager |->
             IF known = {} THEN ""
             ELSE package_manager_of(id_like[MinOf(known)])]

\* Fault: os-release is preferred to every other release file.
release_file_OsReleaseFirst(files) ==
    IF "os-release" \in DOMAIN files THEN "os-release"
    ELSE IF "centos-release" \in DOMAIN files THEN "centos-release"
    ELSE IF "gentoo-release" \in DOMAIN files THEN "gentoo-release"
    ELSE IF "system-release" \in DOMAIN files THEN "system-release"
    ELSE "none"

\* Lines 51, 60, 69, 102: the branch of the if/elif chain that is taken, by
\* the file it opens ("none": no branch).
release_file(files) ==
    IF "centos-release" \in DOMAIN files THEN "centos-release"
    ELSE IF "gentoo-release" \in DOMAIN files THEN "gentoo-release"
    ELSE IF "os-release" \in DOMAIN files THEN "os-release"
    ELSE IF "system-release" \in DOMAIN files THEN "system-release"
    ELSE "none"

\* Lines 44-123: the release files are parsed into the returned dictionary.
parse_release_files(files) ==
    LET f == release_file(files)
        raw == IF f = "centos-release"
                   THEN release_match(read(files[f]), FALSE)
               ELSE IF f = "gentoo-release"
                   THEN release_match(read(files[f]), TRUE)
               ELSE IF f = "os-release"
                   THEN os_release(files[f])
               ELSE IF f = "system-release"
                   THEN release_match(read(files[f]), FALSE)
               ELSE NoMatch
    IN  IF DOMAIN files = {} THEN EmptyInfo
        ELSE IF raw.name = <<>> \/ raw.version = <<>> THEN EmptyInfo
        ELSE Info(strip(strip(raw.name, WHITESPACE), QUOTES),
                  strip(strip(raw.version, WHITESPACE), QUOTES),
                  raw.package_manager)

get_linux_os_info(etcs) == parse_release_files(release_files(etcs))

\* Lines 138-177.  A filesystem is given by the two places where the
\* registry file is looked for (xp: WINDOWS/system32/config/software, nt:
\* Windows/System32/config/SOFTWARE); a hive is [present, opens, key, values]
\* (it is a file, Registry.Registry accepts it, it holds the key
\* Microsoft\Windows NT\CurrentVersion, the values of that key).
software(fs) ==
    IF fs.xp.present THEN fs.xp
    ELSE IF fs.nt.present THEN fs.nt
    ELSE [present |-> FALSE]

\* Lines 167-172: the value of the last entry called wanted ("" if none).
last_value(values, wanted) ==
    LET at == {k \in 1..Len(values) : values[k].name = wanted}
    IN  IF at = {} THEN <<>> ELSE values[MaxOf(at)].value

get_windows_os_info(fs) ==
    LET hive == software(fs) IN
    IF ~hive.present THEN EmptyInfo
    ELSE IF ~hive.opens THEN EmptyInfo
    ELSE IF ~hive.key THEN EmptyInfo
    ELSE LET name == last_value(hive.values, "ProductName")
             version == last_value(hive.values, "CurrentVersion")
         IN  IF name = <<>> \/ version = <<>> THEN EmptyInfo
             ELSE Info(name, version, "win")

\* ------------------------------------------------- inputs of the probes
MaxLines == 3        \* lines of an os-release file
MaxValues == 2       \* values of the CurrentVersion key

vC == <<"3">>

Line(k, v) == k \o <<"=">> \o v \o <<"\n">>

IdLikeLine ==
    Line(kID_LIKE, <<"\"", "x", " ">> \o tSuse \o <<" ">> \o tDebian
                   \o <<"\"">>)

\* NAME=Ubuntu, NAME="", VERSION=1, VERSION=, VERSION_ID=2, BUILD_ID=3,
\* ID_LIKE="x suse debian", ID=arch and a comment.
OsReleaseLines ==
    {Line(kNAME, sUbuntu), Line(kNAME, <<"\"", "\"">>),
     Line(kVERSION, vA), Line(kVERSION, <<>>),
     Line(kVERSION_ID, vB), Line(kBUILD_ID, vC),
     IdLikeLine, Line(kID, tArch), <<"#", "\n">>}

\* The file without its final newline.
chop(lines) ==
    IF lines = <<>> THEN lines
    ELSE [lines EXCEPT ![Len(lines)] = SubSeq(@, 1, Len(@) - 1)]

OsReleaseFiles ==
    LET whole == SeqsUpTo(OsReleaseLines, MaxLines)
    IN  whole \cup {chop(f) : f \in whole}

ReleaseLine(name, version) ==
    <<name \o <<" ">> \o sRelease \o <<" ">> \o version \o <<"\n">>>>

UbuntuFile == <<Line(kNAME, sUbuntu), Line(kVERSION, vA),
                Line(kID_LIKE, tDebian)>>

\* os-release files with both ID and ID_LIKE, in either order.
BothIdFiles ==
    {<<Line(kNAME, sUbuntu), Line(kVERSION, vA), Line(kID, tArch),
       IdLikeLine>>,
     <<Line(kNAME, sUbuntu), Line(kVERSION, vA), IdLikeLine,
       Line(kID, tArch)>>,
     <<Line(kNAME, sUbuntu), Line(kVERSION, vA), Line(kID, tArch),
       Line(kID_LIKE, <<"x">>)>>}

\* The files an etc directory can hold under each name matching *release.
ReleaseContents(name) ==
    IF name = "centos-release"
    THEN {ReleaseLine(sCentOS, vA), <<sCentOS \o <<"\n">>>>,
          ReleaseLine(<<"'">>, vA)}
    ELSE IF name = "gentoo-release" THEN {ReleaseLine(sGentoo, vB)}
    ELSE IF name = "os-release" THEN {UbuntuFile}
    ELSE IF name = "system-release" THEN {ReleaseLine(sOracle, vC)}
    ELSE {<<>>}

ReleaseNames == {"centos-release", "gentoo-release", "os-release",
                 "system-release", "lsb-release"}

EtcFiles ==
    UNION {{f \in [present -> UNION {ReleaseContents(n) : n \in ReleaseNames}] :
                \A n \in present : f[n] \in ReleaseContents(n)} :
           present \in SUBSET ReleaseNames}

EtcDir(files) == [dangling |-> FALSE, files |-> files]

\* One etc directory, alone or after a directory whose etc holds a dangling
\* release link or no release file.
EtcWalks ==
    {<<>>}
    \cup {<<EtcDir([n \in {"os-release"} |-> f])>> :
              f \in OsReleaseFiles \cup BothIdFiles}
    \cup {<<EtcDir(f)>> : f \in EtcFiles}
    \cup {<<[dangling |-> TRUE,
             files |-> [n \in {"system-release"} |->
                           ReleaseLine(sOracle, vC)]],
            EtcDir(f)>> : f \in EtcFiles}
    \cup {<<EtcDir(<<>>), EtcDir(f)>> : f \in EtcFiles}

RegValues ==
    {[name |-> "ProductName", value |-> sWindows],
     [name |-> "ProductName", value |-> <<>>],
     [name |-> "CurrentVersion", value |-> vB],
     [name |-> "InstallDate", value |-> vA]}

NoHive == [present |-> FALSE, opens |-> FALSE, key |-> FALSE,
           values |-> <<>>]

Hives ==
    {NoHive}
    \cup [present : {TRUE}, opens : {FALSE}, key : {FALSE}, values : {<<>>}]
    \cup [present : {TRUE}, opens : {TRUE}, key : {FALSE}, values : {<<>>}]
    \cup [present : {TRUE}, opens : {TRUE}, key : {TRUE},
          values : SeqsUpTo(RegValues, MaxValues)]

FullHive ==
    [present |-> TRUE, opens |-> TRUE, key |-> TRUE,
     values |-> <<[name |-> "ProductName", value |-> sWindows],
                  [name |-> "CurrentVersion", value |-> vB]>>]

ProbeCalls ==
    [fn : {"get_linux_os_info"}, etcs : EtcWalks]
    \cup [fn : {"get_windows_os_info"}, xp : {NoHive}, nt : Hives]
    \cup [fn : {"get_windows_os_info"}, xp : Hives \ {NoHive},
          nt : {NoHive, FullHive}]

\* ====================================================== tools/__init__.py
\* subdirs(path): the entries of a directory that are directories and whose
\* name does not start with a dot, in os.scandir order.  A directory is the
\* list of its entries, an entry a record with name and is_dir.
subdirs(entries) ==
    SelectSeq(entries, LAMBDA e : ~StartsWith(e.name, <<".">>) /\ e.is_dir)

\* ================================================== tools/inspect_apps.py
Package(name, version) == [name |-> name, version |-> version]

\* What os.path.exists finds false.
NoDb == [exists |-> FALSE, content |-> <<>>]

\* Fault: the subdirectories are searched before the direct locations.
find_db_SubdirsFirst(fs, locations) ==
    LET here(places) ==
            {l \in 1..Len(locations) : places[locations[l]].exists}
        first(places) == places[locations[MinOf(here(places))]]
        dirs == subdirs(fs.entries)
        deeper == {d \in 1..Len(dirs) : here(dirs[d].places) # {}}
    IN  IF deeper # {} THEN first(dirs[MinOf(deeper)].places)
        ELSE IF here(fs.places) # {} THEN first(fs.places)
        ELSE NoDb

\* Lines 106-130 of list_applications_dpkg, and the same search in
\* list_applications_apk (52-66), list_applications_pacman (174-198) and
\* list_applications_portage (239-263): the database is looked for at the
\* locations under the mount, in the listed order, then at the same
\* locations under each subdirectory of the mount.  A filesystem is
\* [places, entries]: places maps a location to what is there ([exists,
\* content]), entries are the directory entries of the mount, each with its
\* own places.
find_db(fs, locations) ==
    LET here(places) ==
            {l \in 1..Len(locations) : places[locations[l]].exists}
        first(places) == places[locations[MinOf(here(places))]]
        dirs == subdirs(fs.entries)
        deeper == {d \in 1..Len(dirs) : here(dirs[d].places) # {}}
    IN  IF here(fs.places) # {} THEN first(fs.places)
        ELSE IF deeper # {} THEN first(dirs[MinOf(deeper)].places)
        ELSE NoDb

\* The locations of each parser, in the listed order.
locations(fn) ==
    IF fn = "list_applications_apk" THEN <<"lib/apk/db/installed">>
    ELSE IF fn = "list_applications_dpkg"
    THEN <<"var/lib/dpkg/status", "lib/dpkg/status">>
    ELSE IF fn = "list_applications_pacman"
    THEN <<"var/lib/pacman/local", "lib/pacman/local">>
    ELSE <<"var/db/pkg", "db/pkg">>

\* Fault: name and version are reset only when a package was appended.
apk_packages_NoReset(lines) ==
    LET at[k \in 0..Len(lines)] ==
            IF k = 0 THEN [name |-> <<>>, version |-> <<>>, pkgs |-> <<>>]
            ELSE LET was == at[k - 1]
                     line == strip(lines[k], WHITESPACE)
                 IN  IF line = <<>>
                     THEN IF was.name # <<>> /\ was.version # <<>>
                          THEN [name |-> <<>>, version |-> <<>>,
                                pkgs |-> Append(was.pkgs,
                                             Package(was.name, was.version))]
                          ELSE was
                     ELSE IF StartsWith(line, <<"P", ":">>)
                     THEN [was EXCEPT !.name = SubSeq(line, 3, Len(line))]
                     ELSE IF StartsWith(line, <<"V", ":">>)
                     THEN [was EXCEPT !.version = SubSeq(line, 3, Len(line))]
                     ELSE was
    IN  at[Len(lines)].pkgs

\* Lines 72-89 of list_applications_apk: the loop over the lines of the
\* database; a package is appended when a blank line is read, never at the
\* end of the file.
apk_packages(lines) ==
    LET at[k \in 0..Len(lines)] ==
            IF k = 0 THEN [name |-> <<>>, version |-> <<>>, pkgs |-> <<>>]
            ELSE LET was == at[k - 1]
                     line == strip(lines[k], WHITESPACE)
                 IN  IF line = <<>>
                     THEN [name |-> <<>>, version |-> <<>>,
                           pkgs |-> IF was.name # <<>> /\ was.version # <<>>
                                    THEN Append(was.pkgs,
                                             Package(was.name, was.version))
                                    ELSE was.pkgs]
                     ELSE IF StartsWith(line, <<"P", ":">>)
                     THEN [was EXCEPT !.name = SubSeq(line, 3, Len(line))]
                     ELSE IF StartsWith(line, <<"V", ":">>)
                     THEN [was EXCEPT !.version = SubSeq(line, 3, Len(line))]
                     ELSE was
    IN  at[Len(lines)].pkgs

\* Lines 52-89: the database is found and read; its content is the list of
\* its lines.
list_applications_apk(fs) ==
    LET apk_db == find_db(fs, locations("list_applications_apk"))
    IN  IF ~apk_db.exists THEN <<>> ELSE apk_packages(apk_db.content)

sPackage == <<"P", "a", "c", "k", "a", "g", "e", ":">>

sStatus == <<"S", "t", "a", "t", "u", "s", ":">>

sVersion == <<"V", "e", "r", "s", "i", "o", "n", ":">>

tInstalled == <<"i", "n", "s", "t", "a", "l", "l", "e", "d">>

\* Lines 136-157 of list_applications_dpkg: the loop over the lines of the
\* status file.
dpkg_packages(lines) ==
    LET at[k \in 0..Len(lines)] ==
            IF k = 0
            THEN [name |-> <<>>, version |-> <<>>, installed |-> FALSE,
                  pkgs |-> <<>>]
            ELSE LET was == at[k - 1]
                     line == strip(lines[k], WHITESPACE)
                 IN  IF line = <<>>
                     THEN [name |-> <<>>, version |-> <<>>,
                           installed |-> FALSE,
                           pkgs |-> IF /\ was.name # <<>>
                                       /\ was.version # <<>>
                                       /\ was.installed
                                    THEN Append(was.pkgs,
                                             Package(was.name, was.version))
                                    ELSE was.pkgs]
                     ELSE IF StartsWith(line, sPackage)
                     THEN [was EXCEPT !.name = SubSeq(line, 10, Len(line))]
                     ELSE IF StartsWith(line, sStatus)
                     THEN LET tokens == split(SubSeq(line, 9, Len(line)))
                          IN  [was EXCEPT !.installed =
                                  \E t \in 1..Len(tokens) :
                                      tokens[t] = tInstalled]
                     ELSE IF StartsWith(line, sVersion)
                     THEN [was EXCEPT !.version = SubSeq(line, 10, Len(line))]
                     ELSE was
    IN  at[Len(lines)].pkgs

\* Lines 106-157: the status file is found and read; its content is the
\* list of its lines.
list_applications_dpkg(fs) ==
    LET dpkg_db == find_db(fs, locations("list_applications_dpkg"))
    IN  IF ~dpkg_db.exists THEN <<>> ELSE dpkg_packages(dpkg_db.content)

UPPER == {"A", "B", "C", "D", "E", "F", "G", "H", "I", "J", "K", "L", "M",
          "N", "O", "P", "Q", "R", "S", "T", "U", "V", "W", "X", "Y", "Z"}

DIGITS == {"0", "1", "2", "3", "4", "5", "6", "7", "8", "9"}

\* The pieces of s between the positions of the set at.
cut(s, at) ==
    LET n == Cardinality(at)
        nth(j) == IF j = 0 THEN 0
                  ELSE IF j = n + 1 THEN Len(s) + 1
                  ELSE CHOOSE k \in at : Cardinality({x \in at : x <= k}) = j
    IN  [j \in 1..(n + 1) |-> SubSeq(s, nth(j - 1) + 1, nth(j) - 1)]

\* Line 208: re.split(r"\n(?=%[A-Z]+%)", text), the text is cut at every
\* newline that a header follows.
desc_sections(text) ==
    LET header(j) ==
            /\ j <= Len(text)
            /\ text[j] = "%"
            /\ \E e \in (j + 2)..Len(text) :
                   /\ text[e] = "%"
                   /\ \A x \in (j + 1)..(e - 1) : text[x] \in UPPER
    IN  cut(text, {k \in 1..Len(text) : text[k] = "\n" /\ header(k + 1)})

\* Lines 206-215: the dictionary built from a desc file.  The value of a
\* header is "" (nothing follows it), a string (one line follows) or a list
\* of strings (several lines follow).
desc_kv(text) ==
    LET sections == desc_sections(text)
        kv[j \in 0..Len(sections)] ==
            IF j = 0 THEN <<>>
            ELSE LET section == strip(sections[j], WHITESPACE)
                     lines == cut(section, {k \in 1..Len(section) :
                                               section[k] = "\n"})
                     n == Len(lines)
                     v == IF n < 2 THEN <<>>
                          ELSE IF n > 2 THEN SubSeq(lines, 2, n)
                          ELSE lines[2]
                 IN  put(kv[j - 1], strip(lines[1], {"%"}), v)
    IN  kv[Len(sections)]

\* Lines 204-220: the loop over the package directories of the database; a
\* package directory is [name, is_dir, desc], desc [exists, content] with
\* the text of the file.  open(desc) raises when the file does not exist.
pacman_packages(entries) ==
    LET dirs == subdirs(entries)
        pkgs[j \in 0..Len(dirs)] ==
            IF j = 0 THEN <<>>
            ELSE LET kv == desc_kv(dirs[j].desc.content)
                     name == get(kv, kNAME, <<>>)
                     version == get(kv, kVERSION, <<>>)
                 IN  IF name # <<>> /\ version # <<>>
                     THEN Append(pkgs[j - 1], Package(name, version))
                     ELSE pkgs[j - 1]
    IN  [raised |-> \E j \in 1..Len(dirs) : ~dirs[j].desc.exists,
         value |-> pkgs[Len(dirs)]]

\* Lines 174-222.
list_applications_pacman(fs) ==
    LET pacman_db == find_db(fs, locations("list_applications_pacman"))
    IN  IF ~pacman_db.exists THEN [raised |-> FALSE, value |-> <<>>]
        ELSE pacman_packages(pacman_db.content)

\* Line 272: re.match(r"^(.+)-(\d.*)$", pkg) on a name without newline: the
\* first group is greedy, the name is cut at its last hyphen that a digit
\* follows.
portage_match(pkg) ==
    LET ks == {k \in 2..(Len(pkg) - 1) :
                  pkg[k] = "-" /\ pkg[k + 1] \in DIGITS}
    IN  IF ks = {} THEN [matched |-> FALSE, name |-> <<>>, version |-> <<>>]
        ELSE [matched |-> TRUE,
              name |-> SubSeq(pkg, 1, MaxOf(ks) - 1),
              version |-> SubSeq(pkg, MaxOf(ks) + 1, Len(pkg))]

\* Lines 269-277: the loops over the categories of the database and over
\* the package directories of each; a category is [name, is_dir, entries].
portage_packages(entries) ==
    LET cats == subdirs(entries)
        of(cat) ==
            LET dirs == subdirs(cat.entries)
                pkgs[j \in 0..Len(dirs)] ==
                    IF j = 0 THEN <<>>
                    ELSE LET m == portage_match(dirs[j].name) IN
                         IF m.matched
                         THEN Append(pkgs[j - 1],
                                  Package(cat.name \o <<"/">> \o m.name,
                                          m.version))
                         ELSE pkgs[j - 1]
            IN  pkgs[Len(dirs)]
        all[c \in 0..Len(cats)] ==
            IF c = 0 THEN <<>> ELSE all[c - 1] \o of(cats[c])
    IN  all[Len(cats)]

\* Lines 239-279.
list_applications_portage(fs) ==
    LET portage_db == find_db(fs, locations("list_applications_portage"))
    IN  IF ~portage_db.exists THEN <<>>
        ELSE portage_packages(portage_db.content)

\* Lines 412-429 of _list_applications_windows_from_key.  A key is [exists,
\* subkeys], a subkey the list of its values.
list_applications_windows_from_key(key) ==
    LET apps_of[k \in 0..Len(key.subkeys)] ==
            IF k = 0 THEN <<>>
            ELSE LET name == last_value(key.subkeys[k], "DisplayName")
                     version == last_value(key.subkeys[k], "DisplayVersion")
                 IN  IF name # <<>> /\ version # <<>>
                     THEN Append(apps_of[k - 1], Package(name, version))
                     ELSE apps_of[k - 1]
    IN  apps_of[Len(key.subkeys)]

\* Lines 350-396.  The hive is looked for as in get_windows_os_info; it is
\* [present, opens, uninstall, wow]: uninstall the key
\* Microsoft\Windows\CurrentVersion\Uninstall, wow the same key under
\* Wow6432Node.
list_applications_windows(fs) ==
    LET hive == software(fs) IN
    IF ~hive.present THEN <<>>
    ELSE IF ~hive.opens THEN <<>>
    ELSE IF ~hive.uninstall.exists THEN <<>>
    ELSE IF ~hive.wow.exists
    THEN list_applications_windows_from_key(hive.uninstall)
    ELSE list_applications_windows_from_key(hive.uninstall)
         \o list_applications_windows_from_key(hive.wow)

\* ------------------------------------------------ inputs of the parsers
MaxStanzas == 2      \* stanzas of an apk or dpkg database
MaxSubkeys == 2      \* subkeys of an Uninstall key

nA == <<"a">>
nB == <<"b">>

TextLine(s) == s \o <<"\n">>

\* apk stanzas: two whole ones, one without V:, one without P:, one with a
\* further field between the two.
ApkStanzas ==
    {<<TextLine(<<"P", ":">> \o nA), TextLine(<<"V", ":">> \o vA)>>,
     <<TextLine(<<"V", ":">> \o vB), TextLine(<<"P", ":">> \o nB)>>,
     <<TextLine(<<"P", ":">> \o nA)>>,
     <<TextLine(<<"V", ":">> \o vA)>>,
     <<TextLine(<<"P", ":">> \o nB), TextLine(<<"T", ":">> \o nA),
       TextLine(<<"V", ":">> \o vC)>>}

sInstallOk == <<" ", "i", "n", "s", "t", "a", "l", "l", " ", "o", "k", " ">>
sDeinstallOk ==
    <<" ", "d", "e", "i", "n", "s", "t", "a", "l", "l", " ", "o", "k", " ">>
sConfigFiles == <<"c", "o", "n", "f", "i", "g", "-", "f", "i", "l", "e", "s">>
sHalf == <<"h", "a", "l", "f", "-">>

\* dpkg stanzas: installed, removed, half-installed, without Status, without
\* Version.
DpkgStanzas ==
    {<<TextLine(sPackage \o <<" ">> \o nA),
       TextLine(sStatus \o sInstallOk \o tInstalled),
       TextLine(sVersion \o <<" ">> \o vA)>>,
     <<TextLine(sPackage \o <<" ">> \o nB),
       TextLine(sStatus \o sDeinstallOk \o sConfigFiles),
       TextLine(sVersion \o <<" ">> \o vB)>>,
     <<TextLine(sPackage \o <<" ">> \o nB),
       TextLine(sStatus \o sInstallOk \o sHalf \o tInstalled),
       TextLine(sVersion \o <<" ">> \o vC)>>,
     <<TextLine(sPackage \o <<" ">> \o nA),
       TextLine(sVersion \o <<" ">> \o vA)>>,
     <<TextLine(sPackage \o <<" ">> \o nB),
       TextLine(sStatus \o sInstallOk \o tInstalled)>>}

\* The file made of the stanzas, a blank line between two of them and, if
\* closed, one after the last.
Database(stanzas, closed) ==
    LET upto[k \in 0..Len(stanzas)] ==
            IF k = 0 THEN <<>>
            ELSE upto[k - 1] \o stanzas[k]
                 \o (IF k < Len(stanzas) \/ closed THEN <<<<"\n">>>>
                     ELSE <<>>)
    IN  upto[Len(stanzas)]

DatabaseCalls(fn, Stanzas) ==
    [fn : {fn}, db : {"direct", "subdir"},
     stanzas : SeqsUpTo(Stanzas, MaxStanzas), closed : BOOLEAN]
    \cup [fn : {fn}, db : {"absent"}, stanzas : {<<>>}, closed : {FALSE}]

\* ---------------------------------------- where a database can be found
MaxSubdirs == 1      \* entries of the mounted directory

File(content) == [exists |-> TRUE, content |-> content]

\* The places of a directory under which nothing exists.
NoPlaces(fn) ==
    [l \in {locations(fn)[k] : k \in 1..Len(locations(fn))} |-> NoDb]

hNAME == <<"%", "N", "A", "M", "E", "%", "\n">>

hVERSION == <<"%", "V", "E", "R", "S", "I", "O", "N", "%", "\n">>

hDEPENDS == <<"%", "D", "E", "P", "E", "N", "D", "S", "%", "\n">>

\* A desc file: %NAME%, %VERSION% and two lines of %DEPENDS%.
Desc(name, version) ==
    File(hNAME \o TextLine(name) \o <<"\n">>
         \o hVERSION \o TextLine(version) \o <<"\n">>
         \o hDEPENDS \o TextLine(nA) \o TextLine(nB) \o <<"\n">>)

PkgDir(name, desc) == [name |-> name, is_dir |-> TRUE, desc |-> desc]

Dir(name) == [name |-> name, is_dir |-> TRUE]

Category(name, dirs) == [name |-> name, is_dir |-> TRUE, entries |-> dirs]

\* Databases a place can hold, for each parser.  pacman: one package; a
\* package, a hidden directory and a desc without %VERSION%.  portage: a-1
\* in category s; b-c-2-r3, a directory without version and a file in
\* category t, and a hidden category.
Contents(fn) ==
    IF fn = "list_applications_apk"
    THEN {Database(<<<<TextLine(<<"P", ":">> \o nA),
                       TextLine(<<"V", ":">> \o vA)>>>>, TRUE),
          Database(<<<<TextLine(<<"P", ":">> \o nB),
                       TextLine(<<"V", ":">> \o vB)>>>>, TRUE)}
    ELSE IF fn = "list_applications_dpkg"
    THEN {Database(<<<<TextLine(sPackage \o <<" ">> \o nA),
                       TextLine(sStatus \o sInstallOk \o tInstalled),
                       TextLine(sVersion \o <<" ">> \o vA)>>>>, TRUE),
          Database(<<<<TextLine(sPackage \o <<" ">> \o nB),
                       TextLine(sStatus \o sInstallOk \o tInstalled),
                       TextLine(sVersion \o <<" ">> \o vB)>>>>, TRUE)}
    ELSE IF fn = "list_applications_pacman"
    THEN {<<PkgDir(<<"a", "-", "1">>, Desc(nA, vA))>>,
          <<PkgDir(<<"b", "-", "2">>, Desc(nB, vB)),
            PkgDir(<<".", "c">>, NoDb),
            PkgDir(<<"c", "-", "3">>, File(hNAME \o TextLine(vC)))>>}
    ELSE {<<Category(<<"s">>, <<Dir(<<"a", "-", "1">>)>>)>>,
          <<Category(<<"t">>,
                     <<Dir(<<"b", "-", "c", "-", "2", "-", "r", "3">>),
                       Dir(<<"d", "-", "e">>),
                       [name |-> <<"f", "-", "4">>, is_dir |-> FALSE]>>),
            Category(<<".", "u">>, <<Dir(<<"g", "-", "5">>)>>)>>}

PlacesOf(fn) ==
    [{locations(fn)[k] : k \in 1..Len(locations(fn))} ->
         {NoDb} \cup {File(c) : c \in Contents(fn)}]

\* The entries of the mounted directory: a directory, a hidden directory,
\* a file.
MountEntries(fn) ==
    [name : {<<"@">>, <<".", "s">>}, is_dir : {TRUE}, places : PlacesOf(fn)]
    \cup [name : {<<"f">>}, is_dir : {FALSE}, places : {NoPlaces(fn)}]

\* Two subdirectories that both hold a database, at either location.
TwoDirLayouts(fn) ==
    [places : {NoPlaces(fn)},
     entries : {e \in [1..2 -> MountEntries(fn)] :
                   /\ e[1].name = <<"@">> /\ e[2].name = <<"@">>
                   /\ \E l \in DOMAIN e[1].places : e[1].places[l].exists
                   /\ \E l \in DOMAIN e[2].places : e[2].places[l].exists}]

Layouts(fn) ==
    [places : PlacesOf(fn),
     entries : SeqsUpTo(MountEntries(fn), MaxSubdirs)]
    \cup TwoDirLayouts(fn)

MaxFileLines == 5    \* lines of a database given line by line

\* Lines of an apk database: P:a, V:1, an empty line, a line of
\* whitespace.
ApkLines ==
    {TextLine(<<"P", ":">> \o nA), TextLine(<<"V", ":">> \o vA),
     <<"\n">>, <<" ", "\n">>}

\* Lines of a dpkg status file: Package, Version, Status of an installed
\* package, an empty line.
DpkgLines ==
    {TextLine(sPackage \o <<" ">> \o nA), TextLine(sVersion \o <<" ">> \o vA),
     TextLine(sStatus \o sInstallOk \o tInstalled), <<"\n">>}

\* The mount that holds the file at the first location of the parser.
FileAt(fn, lines) ==
    [places |-> [NoPlaces(fn) EXCEPT ![locations(fn)[1]] = File(lines)],
     entries |-> <<>>]

FileCalls ==
    {[fn |-> "list_applications_apk",
      fs |-> FileAt("list_applications_apk", f)] :
         f \in SeqsUpTo(ApkLines, MaxFileLines)}
    \cup {[fn |-> "list_applications_dpkg",
           fs |-> FileAt("list_applications_dpkg", f)] :
              f \in SeqsUpTo(DpkgLines, MaxFileLines)}

\* A pacman database with a package directory that has no desc file, after
\* one that has.
NoDescCalls ==
    {[fn |-> "list_applications_pacman",
      fs |-> FileAt("list_applications_pacman",
                    <<PkgDir(<<"a", "-", "1">>, Desc(nA, vA)),
                      PkgDir(<<"b", "-", "2">>, NoDb)>>)]}

LocationCalls ==
    UNION {[fn : {fn}, fs : Layouts(fn)] :
               fn \in {"list_applications_apk", "list_applications_dpkg",
                       "list_applications_pacman",
                       "list_applications_portage"}}
    \cup NoDescCalls

sApp == <<"A", "p", "p">>

\* Subkeys of an Uninstall key: with both values, without DisplayName,
\* without DisplayVersion, with an empty DisplayName.
Subkeys ==
    {<<[name |-> "DisplayName", value |-> sApp],
       [name |-> "DisplayVersion", value |-> vA]>>,
     <<[name |-> "DisplayVersion", value |-> vB]>>,
     <<[name |-> "DisplayName", value |-> sWindows]>>,
     <<[name |-> "DisplayName", value |-> <<>>],
       [name |-> "DisplayVersion", value |-> vC]>>}

NoKey == [exists |-> FALSE, subkeys |-> <<>>]

UninstallKeys ==
    {NoKey} \cup [exists : {TRUE}, subkeys : SeqsUpTo(Subkeys, MaxSubkeys)]

NoAppHive == [present |-> FALSE, opens |-> FALSE, uninstall |-> NoKey,
              wow |-> NoKey]

AppHives ==
    {NoAppHive}
    \cup [present : {TRUE}, opens : {FALSE}, uninstall : {NoKey},
          wow : {NoKey}]
    \cup [present : {TRUE}, opens : {TRUE}, uninstall : UninstallKeys,
          wow : UninstallKeys]

ParserCalls ==
    LocationCalls
    \cup FileCalls
    \cup DatabaseCalls("list_applications_apk", ApkStanzas)
    \cup DatabaseCalls("list_applications_dpkg", DpkgStanzas)
    \cup [fn : {"list_applications_windows"}, xp : {NoAppHive},
          nt : AppHives]
    \cup [fn : {"list_applications_windows"}, xp : AppHives \ {NoAppHive},
          nt : {NoAppHive}]

\* ------------------------------------------- inputs of list_partitions
\* Every filesystem type parted can report that matters here: the supported
\* ones, one that is not supported, and none; with or without the LVM flag.
AllDescriptors ==
    [fs : SUPPORTED_FS_TYPES \cup {"linux-swap(v1)", "none"}, lvm : BOOLEAN]

PartitionCalls ==
    [fn : {"list_partitions"},
     table : {[readable |-> FALSE, parts |-> <<>>]} \cup
             [readable : {TRUE}, parts : SeqsUpTo(AllDescriptors, MaxParts)]]

\* ------------------------------------------- a function called on its own
Calls == ProbeCalls \cup ParserCalls \cup PartitionCalls

scriptVars == <<pc, exitCode, fatal, nextDir, tmp, mounts, image_mp, parts,
                lvm, lvm_mp, fs_mps, os_info, apps, nvols, i, vol_part, mp,
                proc, out, acquired, calls, attempts, probes, parsed>>

CallInit ==
    /\ InitScript
    /\ call \in Calls
    /\ result = NoResult

Returns(value) ==
    /\ result = NoResult
    /\ result' = [returned |-> TRUE, value |-> value]
    /\ UNCHANGED <<call, scriptVars>>

\* The call ends with an exception.
Raises ==
    /\ result = NoResult
    /\ result' = [returned |-> FALSE, raised |-> TRUE]
    /\ UNCHANGED <<call, scriptVars>>

Call_get_linux_os_info ==
    /\ call.fn = "get_linux_os_info"
    /\ Returns(get_linux_os_info(call.etcs))

Call_get_windows_os_info ==
    /\ call.fn = "get_windows_os_info"
    /\ Returns(get_windows_os_info(call))

\* The filesystem a call on a database is made on: the one of the call, or
\* the one that holds the file made of the stanzas of the call at the first
\* location ("direct"), at the first location of a subdirectory ("subdir"),
\* nowhere ("absent").
DatabaseOf(c) ==
    IF "fs" \in DOMAIN c THEN c.fs
    ELSE LET first == locations(c.fn)[1]
             db == File(Database(c.stanzas, c.closed))
             at == [NoPlaces(c.fn) EXCEPT ![first] = db]
         IN  IF c.db = "direct" THEN [places |-> at, entries |-> <<>>]
             ELSE IF c.db = "subdir"
             THEN [places |-> NoPlaces(c.fn),
                   entries |-> <<[name |-> <<"@">>, is_dir |-> TRUE,
                                  places |-> at]>>]
             ELSE [places |-> NoPlaces(c.fn), entries |-> <<>>]

Call_list_applications_apk ==
    /\ call.fn = "list_applications_apk"
    /\ Returns(list_applications_apk(DatabaseOf(call)))

Call_list_applications_dpkg ==
    /\ call.fn = "list_applications_dpkg"
    /\ Returns(list_applications_dpkg(DatabaseOf(call)))

Call_list_applications_pacman ==
    /\ call.fn = "list_applications_pacman"
    /\ LET r == list_applications_pacman(DatabaseOf(call))
       IN  IF r.raised THEN Raises ELSE Returns(r.value)

Call_list_applications_portage ==
    /\ call.fn = "list_applications_portage"
    /\ Returns(list_applications_portage(DatabaseOf(call)))

Call_list_applications_windows ==
    /\ call.fn = "list_applications_windows"
    /\ Returns(list_applications_windows(call))

Call_list_partitions ==
    /\ call.fn = "list_partitions"
    /\ Returns(list_partitions(call.table))

CallNext ==
    \/ Call_list_partitions
    \/ Call_get_linux_os_info
    \/ Call_get_windows_os_info
    \/ Call_list_applications_apk
    \/ Call_list_applications_dpkg
    \/ Call_list_applications_pacman
    \/ Call_list_applications_portage
    \/ Call_list_applications_windows

CallSpec == CallInit /\ [][CallNext]_vars

Returned_from(fn) == call.fn = fn /\ result.returned

\* ------------------------------------------------------------------ C11
\* C11 (as claimed): every value returned by the Linux probe and by the
\* Windows probe is either entirely empty or has both a non-empty name and a
\* non-empty version.
C11_ProbeAllOrNothing ==
    (Returned_from("get_linux_os_info")
     \/ Returned_from("get_windows_os_info")) =>
        \/ result.value = EmptyInfo
        \/ /\ result.value.populated
           /\ result.value.name # <<>>
           /\ result.value.version # <<>>

\* ------------------------------------------------------------------ C12
\* The release files in the order of priority the specification gives.
Priority == <<"centos-release", "gentoo-release", "os-release",
              "system-release">>

\* The file of highest priority among files, as a set (empty: none).
Highest(files) ==
    LET at == {k \in 1..Len(Priority) : Priority[k] \in DOMAIN files}
    IN  IF at = {} THEN {} ELSE {Priority[MinOf(at)]}

\* The directory with only the named files left in it.
Only(files, names) == [n \in DOMAIN files \cap names |-> files[n]]

\* C12: the Linux probe opens the release file of highest priority of the
\* chosen etc directory and no other; what it returns is what it returns
\* when every other release file is removed from the directory; when
\* centos-release is there, a populated result has package manager rpm.
C12_HighestPriorityOnly ==
    Returned_from("get_linux_os_info") =>
        LET files == release_files(call.etcs) IN
        /\ release_file(files) \in Highest(files) \cup {"none"}
        /\ (Highest(files) = {}) = (release_file(files) = "none")
        /\ result.value = parse_release_files(Only(files, Highest(files)))
        /\ ("centos-release" \in DOMAIN files /\ result.value.populated)
               => result.value.package_manager = "rpm"

\* The probe has returned CentOS from a directory that holds centos-release
\* and an os-release describing Ubuntu.
C12_Witness ==
    /\ Returned_from("get_linux_os_info")
    /\ {"centos-release", "os-release"} \subseteq
           DOMAIN release_files(call.etcs)
    /\ result.value = Info(sCentOS, vA, "rpm")

\* ------------------------------------------------------------------ C20
\* The value of a key of os-release after normalisation ("": none).
ValueOf(kv, key) == strip(strip(get(kv, key, <<>>), WHITESPACE), QUOTES)

\* VERSION when it has a value, otherwise VERSION_ID, otherwise BUILD_ID.
FirstVersion(kv) ==
    IF ValueOf(kv, kVERSION) # <<>> THEN ValueOf(kv, kVERSION)
    ELSE IF ValueOf(kv, kVERSION_ID) # <<>> THEN ValueOf(kv, kVERSION_ID)
    ELSE ValueOf(kv, kBUILD_ID)

\* C20 (as claimed): in the os-release branch the version returned is the
\* value of VERSION when it has one, otherwise that of VERSION_ID, otherwise
\* that of BUILD_ID, and the result is empty only when none of the three
\* has a value or NAME is missing.
C20_VersionFallback ==
    LET files == release_files(call.etcs) IN
    (Returned_from("get_linux_os_info")
     /\ release_file(files) = "os-release") =>
        LET kv == os_release_kv(files["os-release"]) IN
        /\ result.value.populated =>
               result.value.version = FirstVersion(kv)
        /\ ~result.value.populated =>
               (FirstVersion(kv) = <<>> \/ ValueOf(kv, kNAME) = <<>>)

\* ------------------------------------------------------------------ C13
\* The parsing phase (lines 94-110) is over.
ParsingOver ==
    pc \in {"teardown_fs", "teardown_lvm", "teardown_image", "print", "done"}

\* C13 (as claimed): the parser run on a filesystem is the one of the
\* package manager that OS identification resolved, whatever the OS name
\* is, and an identified OS whose package manager is one of apk, dpkg,
\* pacman, portage, rpm, win has its parser run.
C13_ParserByPackageManager ==
    /\ \A k \in 1..Len(parsed) :
           parsed[k].parser = os_info.package_manager
    /\ (/\ ParsingOver
        /\ fs_mps # <<>>
        /\ os_info.populated
        /\ os_info.package_manager \in
               {"apk", "dpkg", "pacman", "portage", "rpm", "win"})
       => parsed # <<>>

\* ------------------------------------------------------------------ C14
\* C14: the parser runs on fs_mps[1], fs_mps[2], ... in this order, the
\* order of the probes; every run but the last returned the empty list;
\* once parsing is over, apps is the non-empty list of the last run (and no
\* later filesystem was parsed), or it is empty and either no parser was
\* selected or every filesystem was parsed; nothing is parsed when no OS was
\* identified.
C14_FirstNonEmptyListWins ==
    /\ Len(parsed) <= Len(fs_mps)
    /\ \A k \in 1..Len(parsed) :
           /\ parsed[k].fs = k
           /\ k <= Len(probes) => probes[k].fs = parsed[k].fs
           /\ k < Len(parsed) => (~parsed[k].raised /\ parsed[k].res = <<>>)
    /\ ~os_info.populated => (parsed = <<>> /\ apps = <<>>)
    /\ ParsingOver =>
           /\ apps = IF parsed = <<>> THEN <<>>
                     ELSE parsed[Len(parsed)].res
           /\ (apps = <<>> /\ parsed # <<>>) => Len(parsed) = Len(fs_mps)

\* A completed run with two filesystems whose first list was empty and
\* whose second list is the result.
C14_Witness ==
    /\ pc = "done"
    /\ Len(fs_mps) = 2
    /\ Len(parsed) = 2
    /\ parsed[1].res = <<>>
    /\ parsed[2].res # <<>>
    /\ apps = parsed[2].res
    /\ out.apps = apps

\* ------------------------------------------------------------------ C15
\* C15 (as claimed): the record printed by a completed run has the name,
\* the version and the package manager that were identified and the list of
\* the aggregator.
C15_RecordIsFaithful ==
    out.printed =>
        /\ out.os_name = os_info.name
        /\ out.apps = apps
        /\ out.os_version = os_info.version
        /\ "package_manager" \in DOMAIN out
        /\ out.package_manager = os_info.package_manager

\* ------------------------------------------------------------------ C19
\* C19 (as claimed): no probe and no parser ever raises; a release file,
\* database or hive it cannot read gives the empty result.
C19_UnreadableIsEmpty ==
    /\ \A k \in 1..Len(probes) : ~probes[k].raised
    /\ \A k \in 1..Len(parsed) : ~parsed[k].raised

\* ------------------------------------------------------------------ C16
\* The lines of a stanza that start with a field name.
FieldLines(stanza, field) ==
    SelectSeq(stanza, LAMBDA line : StartsWith(line, field))

\* The value of a field of a stanza that has it: what follows the field
\* name on its line, without the surrounding whitespace.
FieldOf(stanza, field) ==
    LET line == FieldLines(stanza, field)[1]
    IN  strip(SubSeq(line, Len(field) + 1, Len(line)), WHITESPACE)

\* One package per stanza that has both fields, in the order of the file.
ApkExpected(stanzas) ==
    LET kept == SelectSeq(stanzas, LAMBDA st :
                    /\ FieldLines(st, <<"P", ":">>) # <<>>
                    /\ FieldLines(st, <<"V", ":">>) # <<>>)
    IN  [k \in 1..Len(kept) |->
            Package(FieldOf(kept[k], <<"P", ":">>),
                    FieldOf(kept[k], <<"V", ":">>))]

\* C16 (as claimed): whether or not the file ends with a blank line, the
\* apk parser returns one package per stanza that has a P: and a V: line,
\* in file order, and none for a stanza without one of them.
C16_OnePackagePerStanza ==
    (/\ Returned_from("list_applications_apk")
     /\ "stanzas" \in DOMAIN call
     /\ call.db # "absent") =>
        result.value = ApkExpected(call.stanzas)

\* ------------------------------------------------------------------ C17
\* A stanza has a Status line with the token installed.
IsInstalled(stanza) ==
    /\ FieldLines(stanza, sStatus) # <<>>
    /\ LET tokens == split(FieldOf(stanza, sStatus))
       IN  \E t \in 1..Len(tokens) : tokens[t] = tInstalled

DpkgExpected(stanzas) ==
    LET kept == SelectSeq(stanzas, LAMBDA st :
                    /\ FieldLines(st, sPackage) # <<>>
                    /\ FieldLines(st, sVersion) # <<>>
                    /\ IsInstalled(st))
    IN  [k \in 1..Len(kept) |->
            Package(FieldOf(kept[k], sPackage), FieldOf(kept[k], sVersion))]

\* C17 (as claimed): the dpkg parser returns, in file order, the stanzas
\* that have a Package line, a Version line and a Status line with the
\* token installed, and no other.
C17_InstalledStanzasKept ==
    (/\ Returned_from("list_applications_dpkg")
     /\ "stanzas" \in DOMAIN call
     /\ call.db # "absent") =>
        result.value = DpkgExpected(call.stanzas)

\* ------------------------------------------------------------------ C18
\* The entries of the subkeys of a key that have both values (none when the
\* key does not exist).
EntriesOf(key) ==
    LET both == SelectSeq(key.subkeys, LAMBDA values :
                    /\ last_value(values, "DisplayName") # <<>>
                    /\ last_value(values, "DisplayVersion") # <<>>)
    IN  IF ~key.exists THEN <<>>
        ELSE [k \in 1..Len(both) |->
                 Package(last_value(both[k], "DisplayName"),
                         last_value(both[k], "DisplayVersion"))]

\* C18 (as claimed): on a hive that opens, the Windows parser returns the
\* entries of the Uninstall key followed by those of its Wow6432Node mirror,
\* each key being enumerated whenever it exists, whether or not the other
\* does.
C18_BothUninstallKeys ==
    (/\ Returned_from("list_applications_windows")
     /\ software(call).present
     /\ software(call).opens) =>
        result.value = EntriesOf(software(call).uninstall)
                       \o EntriesOf(software(call).wow)

\* ------------------------------------------------------------------ C21
\* The mapping from a token of ID_LIKE to a package manager.
Mapping ==
    {<<tAlpine, "apk">>, <<tDebian, "dpkg">>, <<tUbuntu, "dpkg">>,
     <<tArch, "pacman">>, <<tCentos, "rpm">>, <<tFedora, "rpm">>,
     <<tRhel, "rpm">>, <<tOpensuse, "rpm">>, <<tSuse, "rpm">>,
     <<tOl, "rpm">>}

Recognised(token) == \E m \in Mapping : m[1] = token

\* The package managers a populated record can name ("" stands for none).
PackageManagers == {"apk", "dpkg", "pacman", "portage", "rpm", "win", ""}

\* The tokens that decide: those of ID_LIKE, of ID when ID_LIKE is absent.
IdTokens(kv) ==
    split(ValueOf(kv, IF kID_LIKE \in DOMAIN kv THEN kID_LIKE ELSE kID))

\* C21: in the os-release branch the package manager of a populated result
\* is the one the mapping gives to the first recognised token of ID_LIKE
\* (of ID when ID_LIKE is absent), none when no token is recognised; every
\* populated result of a probe names a package manager of the closed set.
C21_FirstRecognisedToken ==
    LET files == release_files(call.etcs) IN
    /\ (/\ Returned_from("get_linux_os_info")
        /\ release_file(files) = "os-release"
        /\ result.value.populated) =>
           LET tokens == IdTokens(os_release_kv(files["os-release"]))
               known == {k \in 1..Len(tokens) : Recognised(tokens[k])}
               pm == result.value.package_manager
           IN  IF known = {} THEN pm = ""
               ELSE <<tokens[MinOf(known)], pm>> \in Mapping
    /\ (/\ \/ Returned_from("get_linux_os_info")
           \/ Returned_from("get_windows_os_info")
        /\ result.value.populated) =>
           result.value.package_manager \in PackageManagers

\* The probe has returned rpm from an os-release with ID=arch and
\* ID_LIKE="x suse debian".
C21_Witness ==
    /\ Returned_from("get_linux_os_info")
    /\ release_file(release_files(call.etcs)) = "os-release"
    /\ LET kv == os_release_kv(release_files(call.etcs)["os-release"])
       IN  /\ {kID, kID_LIKE} \subseteq DOMAIN kv
           /\ Len(IdTokens(kv)) = 3
    /\ result.value.populated
    /\ result.value.package_manager = "rpm"

\* ------------------------------------------------------------------ C22
\* The tag the rule gives a raw descriptor, as a set (empty: dropped).
Tag(d) ==
    IF d.fs \in {"ext2", "ext3", "ext4", "xfs", "btrfs", "vfat", "ntfs"}
    THEN {d.fs}
    ELSE IF d.lvm THEN {"lvm"} ELSE {}

\* C22: the classifier returns the empty list for a device or a partition
\* table that cannot be read; otherwise it returns, in input order, one
\* record per descriptor the rule tags, carrying that tag: the filesystem
\* type when it is supported (whatever the LVM flag), lvm for any other
\* descriptor with the LVM flag; every other descriptor is dropped, and no
\* record has a type outside the supported ones and lvm.
C22_Classifier ==
    Returned_from("list_partitions") =>
        LET t == call.table
            ret == result.value
            kept == {k \in 1..Len(t.parts) : Tag(t.parts[k]) # {}}
        IN  /\ ~t.readable => ret = <<>>
            /\ Len(ret) = Cardinality(kept)
            /\ \A j \in 1..Len(ret) :
                   /\ ret[j].nr \in kept
                   /\ Tag(t.parts[ret[j].nr]) = {ret[j].type}
                   /\ ret[j].type \in SUPPORTED_FS_TYPES \cup {"lvm"}
                   /\ \A h \in 1..(j - 1) : ret[h].nr < ret[j].nr

\* The classifier has tagged a descriptor with a supported filesystem and
\* the LVM flag by its filesystem, after dropping one and before tagging an
\* LVM one.
C22_Witness ==
    /\ Returned_from("list_partitions")
    /\ Len(call.table.parts) = 2
    /\ call.table.parts[1] = [fs |-> "linux-swap(v1)", lvm |-> FALSE]
    /\ call.table.parts[2] = [fs |-> "xfs", lvm |-> TRUE]
    /\ result.value = <<[nr |-> 2, type |-> "xfs", offset |-> 1024]>>

\* ------------------------------------------------------------------ C23
TextParsers == {"list_applications_apk", "list_applications_dpkg",
                "list_applications_pacman", "list_applications_portage"}

NothingFound == [raised |-> FALSE, value |-> <<>>]

\* What a parser makes of the database at one place.
ParseOf(fn, db) ==
    IF fn = "list_applications_apk"
    THEN [raised |-> FALSE, value |-> apk_packages(db.content)]
    ELSE IF fn = "list_applications_dpkg"
    THEN [raised |-> FALSE, value |-> dpkg_packages(db.content)]
    ELSE IF fn = "list_applications_portage"
    THEN [raised |-> FALSE, value |-> portage_packages(db.content)]
    ELSE IF pacman_packages(db.content).raised
    THEN [raised |-> TRUE, value |-> <<>>]
    ELSE pacman_packages(db.content)

\* How the call ended.
Outcome ==
    IF result.returned THEN [raised |-> FALSE, value |-> result.value]
    ELSE [raised |-> TRUE, value |-> <<>>]

\* The listed locations, by position, at which places hold a database.
Present(fn, places) ==
    {l \in 1..Len(locations(fn)) : places[locations(fn)[l]].exists}

FirstPresent(fn, places) ==
    places[locations(fn)[MinOf(Present(fn, places))]]

\* C23: a text-database parser returns the empty list, without error, when
\* no database exists under the mount or one level deeper; when a database
\* exists at a direct location it uses the one at the first such location,
\* whatever the subdirectories hold; only when none exists at a direct
\* location does it use the first listed location of the first
\* subdirectory that holds one.
C23_DatabaseLocation ==
    (call.fn \in TextParsers /\ result # NoResult) =>
        LET fn == call.fn
            fs == DatabaseOf(call)
            direct == Present(fn, fs.places)
            deeper == {d \in 1..Len(fs.entries) :
                          /\ fs.entries[d].is_dir
                          /\ fs.entries[d].name[1] # "."
                          /\ Present(fn, fs.entries[d].places) # {}}
            anywhere == \/ direct # {}
                        \/ \E d \in 1..Len(fs.entries) :
                               Present(fn, fs.entries[d].places) # {}
        IN  /\ ~anywhere => Outcome = NothingFound
            /\ direct # {} =>
                   Outcome = ParseOf(fn, FirstPresent(fn, fs.places))
            /\ (direct = {} /\ deeper # {}) =>
                   Outcome = ParseOf(fn, FirstPresent(fn,
                                 fs.entries[MinOf(deeper)].places))
            /\ (direct = {} /\ deeper = {}) => Outcome = NothingFound

\* The dpkg parser has returned the packages of lib/dpkg/status under the
\* mount while a subdirectory holds another var/lib/dpkg/status.
C23_Witness ==
    /\ Returned_from("list_applications_dpkg")
    /\ "fs" \in DOMAIN call
    /\ ~call.fs.places["var/lib/dpkg/status"].exists
    /\ call.fs.places["lib/dpkg/status"].exists
    /\ Len(call.fs.entries) = 1
    /\ call.fs.entries[1].name = <<"@">>
    /\ call.fs.entries[1].places["var/lib/dpkg/status"].exists
    /\ result.value = <<Package(nB, vB)>>
    /\ dpkg_packages(
           call.fs.entries[1].places["var/lib/dpkg/status"].content)
           = <<Package(nA, vA)>>

\* ------------------------------------------------------------------ C24
\* The filesystem mounts attempted on logical volumes.
VolumeAttempts ==
    SelectSeq(attempts, LAMBDA a : a.kind = "fs" /\ a.dev = "vol")

\* C24 (as claimed): in the LVM branch at most one filesystem mount is
\* attempted for each logical-volume entry, the entries are tried in order
\* whatever happened to the earlier ones, and the filesystem type passed to
\* the mount is a supported filesystem tag, never lvm.
C24_VolumeMountsAFilesystem ==
    /\ \A a \in 1..Len(VolumeAttempts) :
           /\ VolumeAttempts[a].vol \in 1..nvols
           /\ VolumeAttempts[a].type \in SUPPORTED_FS_TYPES
           /\ \A b \in 1..(a - 1) :
                  VolumeAttempts[b].vol < VolumeAttempts[a].vol
    /\ (pc = "vols" /\ i <= nvols) => exitCode = -1

\* ------------------------------------------------------------------ C25
\* The filesystem mounts that were acquired.
FsPaths ==
    {acquired[k].mp : k \in {j \in 1..Len(acquired) : acquired[j].kind = "fs"}}

\* unmount and then rmdir were called on m before the call at position j.
ReleasedBefore(m, j) ==
    \E a, b \in 1..(j - 1) :
        /\ a < b
        /\ calls[a].op = "unmount" /\ calls[a].path = m
        /\ calls[b].op = "rmdir" /\ calls[b].path = m

\* C25: no release call is made on the volume-group mount before unmount
\* and rmdir have been called on every filesystem mount, and none on the
\* image mount before they have been called on every filesystem mount and
\* on the volume-group mount, if there is one.
C25_LayersReleasedInOrder ==
    \A j \in 1..Len(calls) :
        /\ (lvm_mp # 0 /\ calls[j].path = lvm_mp) =>
               \A m \in FsPaths : ReleasedBefore(m, j)
        /\ (image_mp # 0 /\ calls[j].path = image_mp) =>
               /\ \A m \in FsPaths : ReleasedBefore(m, j)
               /\ lvm_mp # 0 => ReleasedBefore(lvm_mp, j)

\* A completed run over a volume group with a filesystem mount, whose
\* first release call, the unmount of the filesystem, failed.
C25_Witness ==
    /\ pc = "done"
    /\ lvm_mp # 0
    /\ fs_mps # <<>>
    /\ calls[1] = [op |-> "unmount", path |-> fs_mps[1].mp, ok |-> FALSE]
    /\ calls[Len(calls)].path = image_mp

\* ------------------------------------------------------------------ C26
\* The polling mount in progress returns in this step.
PollReturns ==
    /\ pc \in {"image_poll", "fs_poll"}
    /\ attempts[Len(attempts)].res = "pending"
    /\ attempts'[Len(attempts)].res # "pending"

\* The device, volume and partition a filesystem mount is attempted on.
TargetOf(a) == <<a.dev, a.vol, a.nr>>

\* C26 (as claimed): a polling mount returns its mount point only when it
\* saw the mount point visible while the process was running; when the
\* process has exited first, the attempt fails, its temporary directory no
\* longer exists, nothing is added to the filesystem list or to the mounts
\* held, and no target is attempted twice.
C26_PollingOutcome ==
    /\ [][PollReturns =>
              IF attempts'[Len(attempts)].res = "ok"
              THEN proc = "visible" /\ mp \in mounts
              ELSE /\ proc = "exited"
                   /\ mp \notin tmp'
                   /\ fs_mps' = fs_mps
                   /\ acquired' = acquired
                   /\ image_mp' = image_mp]_vars
    /\ [](\A a, b \in 1..Len(FsAttempts) :
              a # b => TargetOf(FsAttempts[a]) # TargetOf(FsAttempts[b]))

\* ------------------------------------------------------------------ C27
\* A probe or a parser is invoked in this step.
Uses == probes' # probes \/ parsed' # parsed

\* The filesystem, by its position in fs_mps, the invocation is made on.
Used ==
    IF probes' # probes THEN probes'[Len(probes')].fs
    ELSE parsed'[Len(parsed')].fs

\* C27: whenever a probe or a parser is invoked, the filesystem mount it
\* is invoked on, the volume-group mount (if any) and the image mount have
\* been acquired and no release call has been made on any of them; no
\* release call at all has been made before the last invocation of the run.
C27_NoUseAfterRelease ==
    [][Uses =>
          /\ Used \in 1..Len(fs_mps)
          /\ image_mp # 0
          /\ lvm # <<>> => lvm_mp # 0
          /\ \A m \in {fs_mps[Used].mp, image_mp}
                       \cup (IF lvm_mp # 0 THEN {lvm_mp} ELSE {}) :
                 /\ m \in AcquiredPaths
                 /\ CallsOn("unmount", m) = {}
                 /\ CallsOn("rmdir", m) = {}
          /\ calls = <<>>]_vars

\* A completed run over a volume group that probed and parsed a filesystem
\* and then released the three mounts.
C27_Witness ==
    /\ pc = "done"
    /\ lvm_mp # 0
    /\ probes # <<>>
    /\ parsed # <<>>
    /\ Len(calls) = 6

\* ------------------------------------------------------------------ C28
\* The stanzas of a file: the runs of lines between two blank lines (a run
\* can be empty).
StanzasOf(lines) ==
    cut(lines, {k \in 1..Len(lines) : strip(lines[k], WHITESPACE) = <<>>})

\* A line of the stanza gives the field the value.
Gives(stanza, field, value) ==
    \E k \in 1..Len(stanza) :
        LET line == strip(stanza[k], WHITESPACE)
        IN  /\ StartsWith(line, field)
            /\ strip(SubSeq(line, Len(field) + 1, Len(line)), WHITESPACE)
                   = strip(value, WHITESPACE)

\* The package takes all its fields from the stanza.
FromStanza(fn, pkg, stanza) ==
    IF fn = "list_applications_apk"
    THEN /\ Gives(stanza, <<"P", ":">>, pkg.name)
         /\ Gives(stanza, <<"V", ":">>, pkg.version)
    ELSE /\ Gives(stanza, sPackage, pkg.name)
         /\ Gives(stanza, sVersion, pkg.version)
         /\ \E k \in 1..Len(stanza) :
                LET line == strip(stanza[k], WHITESPACE)
                    tokens == split(SubSeq(line, Len(sStatus) + 1, Len(line)))
                IN  /\ StartsWith(line, sStatus)
                    /\ \E t \in 1..Len(tokens) : tokens[t] = tInstalled

\* C28: the packages the apk and dpkg parsers return can be matched, in
\* order, with different stanzas of the file so that every package has its
\* name, its version and (for dpkg) its installed status from lines of its
\* own stanza.
C28_NoLeakAcrossStanzas ==
    (/\ \/ Returned_from("list_applications_apk")
        \/ Returned_from("list_applications_dpkg")
     /\ find_db(DatabaseOf(call), locations(call.fn)).exists) =>
        LET lines == find_db(DatabaseOf(call), locations(call.fn)).content
            stanzas == StanzasOf(lines)
            pkgs == result.value
        IN  \E f \in [1..Len(pkgs) -> 1..Len(stanzas)] :
                /\ \A j, k \in 1..Len(pkgs) : j < k => f[j] < f[k]
                /\ \A k \in 1..Len(pkgs) :
                       FromStanza(call.fn, pkgs[k], stanzas[f[k]])

\* The apk parser has returned one package from a file in which a whole
\* stanza, two blank lines and a stanza with only a name follow each other.
C28_Witness ==
    /\ Returned_from("list_applications_apk")
    /\ "fs" \in DOMAIN call
    /\ find_db(call.fs, locations(call.fn)).content =
           <<TextLine(<<"P", ":">> \o nA), TextLine(<<"V", ":">> \o vA),
             <<"\n">>, <<" ", "\n">>, TextLine(<<"P", ":">> \o nA)>>
    /\ result.value = <<Package(nA, vA)>>

====
